---- MODULE Spec2Model ----
(***************************************************************************)
(* Model of the Apollo transaction builder (apollo.go, models.go, the      *)
(* Value arithmetic and the sort helpers).  The builder is the record `a`, *)
(* one field per field of the Go struct Apollo that the modelled           *)
(* operations read or write; `ret` records what the last call returned.    *)
(*                                                                         *)
(* Strings are sequences of character codes, byte strings are sequences of *)
(* numbers 0..255, so that hex encoding, decimal formatting and the        *)
(* lexicographic comparisons of the code are computed, not assumed.        *)
(***************************************************************************)
EXTENDS Integers, Sequences, FiniteSets, TLC

VARIABLES a, ret

vars == <<a, ret>>

----------------------------------------------------------------------------
(* Sequences, strings and bytes                                            *)

Range(s) == {s[i] : i \in 1..Len(s)}

RECURSIVE Concat(_)
\* the concatenation of a sequence of sequences
Concat(ss) == IF ss = <<>> THEN <<>> ELSE Head(ss) \o Concat(Tail(ss))

RECURSIVE SeqLess(_, _)
\* lexicographic order on sequences of numbers: Go's string `<` and bytes.Compare(x, y) < 0
SeqLess(x, y) ==
    IF y = <<>> THEN FALSE
    ELSE IF x = <<>> THEN TRUE
    ELSE IF Head(x) # Head(y) THEN Head(x) < Head(y)
    ELSE SeqLess(Tail(x), Tail(y))

\* the character codes of "0123456789abcdef", as hex.EncodeToString writes them
HexChar(n) == IF n < 10 THEN 48 + n ELSE 87 + n

\* hex.EncodeToString: two lower-case hex characters per byte
HexEncodeToString(bytes) ==
    Concat([i \in 1..Len(bytes) |-> <<HexChar(bytes[i] \div 16), HexChar(bytes[i] % 16)>>])

\* the value of one hex character, -1 when it is none; hex.DecodeString takes both cases
FromHexChar(c) ==
    IF c >= 48 /\ c <= 57 THEN c - 48
    ELSE IF c >= 97 /\ c <= 102 THEN c - 87
    ELSE IF c >= 65 /\ c <= 70 THEN c - 55
    ELSE -1

\* whether hex.DecodeString accepts the string
HexValid(str) ==
    /\ Len(str) % 2 = 0
    /\ \A i \in 1..Len(str) : FromHexChar(str[i]) >= 0

\* hex.DecodeString of a string it accepts
HexDecodeString(str) ==
    [i \in 1..(Len(str) \div 2) |-> 16 * FromHexChar(str[2 * i - 1]) + FromHexChar(str[2 * i])]

RECURSIVE Itoa(_)
\* strconv.Itoa of a non-negative number: its decimal digits
Itoa(n) == IF n < 10 THEN <<48 + n>> ELSE Itoa(n \div 10) \o <<48 + (n % 10)>>

\* all orderings of the elements of a sequence
Perms(s) ==
    {[i \in 1..Len(s) |-> s[p[i]]] :
        p \in {q \in [1..Len(s) -> 1..Len(s)] : \A i, j \in 1..Len(s) : i # j => q[i] # q[j]}}

\* the element of a singleton; {e(x) : x \in {v}} names the value v as x in e
The(S) == CHOOSE x \in S : TRUE

----------------------------------------------------------------------------
(* Multi-assets and Values                                                 *)

\* math.MaxUint64 at the width the model keeps coins in (31 bits)
MaxUint64 == 2147483647

\* the asset map of a MultiAsset with no entries
EmptyQ == [k \in {} |-> 0]

\* a nil *MultiAsset
NilAssets == [nil |-> TRUE, q |-> EmptyQ]

\* a non-nil MultiAsset holding quantity n of the one asset k = <<policy bytes, name bytes>>
OneAsset(k, n) == [nil |-> FALSE, q |-> [x \in {k} |-> n]]

\* MultiAsset.Asset: the quantity held of asset k, none read as 0
Qty(m, k) == IF k \in DOMAIN m.q THEN m.q[k] ELSE 0

\* MultiAsset.Add on a non-nil receiver: quantities are summed entry by entry, entries kept
MultiAssetAdd(m, other) ==
    IF other.nil THEN m
    ELSE [nil |-> FALSE,
          q |-> [k \in (DOMAIN m.q) \cup (DOMAIN other.q) |-> Qty(m, k) + Qty(other, k)]]

MultiAssetIsEmpty(m) == m.nil \/ \A k \in DOMAIN m.q : m.q[k] <= 0

NewSimpleValue(coin) == [coin |-> coin, assets |-> NilAssets]

NewValue(coin, assets) == [coin |-> coin, assets |-> assets]

HasAssets(v) == ~v.assets.nil /\ ~MultiAssetIsEmpty(v.assets)

\* Value.Add that sums the coin and keeps only the receiver's assets
ValueAddDropsAssets(v, other) ==
    IF other.coin > MaxUint64 - v.coin
    THEN [err |-> "coin overflow", v |-> NewSimpleValue(0)]
    ELSE [err |-> "", v |-> [coin |-> v.coin + other.coin, assets |-> v.assets]]

\* Value.Add: [err, v]; the coin sum is checked against the integer width
ValueAdd(v, other) ==
    IF other.coin > MaxUint64 - v.coin
    THEN [err |-> "coin overflow", v |-> NewSimpleValue(0)]
    ELSE [err |-> "",
          v |-> [coin |-> v.coin + other.coin,
                 assets |-> IF ~v.assets.nil /\ ~other.assets.nil
                            THEN MultiAssetAdd(v.assets, other.assets)
                            ELSE IF ~v.assets.nil THEN v.assets
                            ELSE other.assets]]

\* SubMultiAsset without its underflow check
SubMultiAssetUnchecked(m, other) ==
    [err |-> "",
     m |-> MultiAssetAdd(m, [nil |-> FALSE, q |-> [k \in DOMAIN other.q |-> 0 - other.q[k]]])]

\* SubMultiAsset on non-nil m and other: [err, m]
SubMultiAsset(m, other) ==
    IF \E k \in DOMAIN other.q : other.q[k] > Qty(m, k)
    THEN [err |-> "asset underflow", m |-> m]
    ELSE [err |-> "",
          m |-> MultiAssetAdd(m, [nil |-> FALSE, q |-> [k \in DOMAIN other.q |-> 0 - other.q[k]]])]

\* Value.Sub: [err, v]
ValueSub(v, other) ==
    IF other.coin > v.coin
    THEN [err |-> "coin underflow", v |-> NewSimpleValue(0)]
    ELSE IF ~v.assets.nil
    THEN IF ~other.assets.nil
         THEN LET r == SubMultiAsset(v.assets, other.assets)
              IN  IF r.err # "" THEN [err |-> r.err, v |-> NewSimpleValue(0)]
                  ELSE [err |-> "", v |-> [coin |-> v.coin - other.coin, assets |-> r.m]]
         ELSE [err |-> "", v |-> [coin |-> v.coin - other.coin, assets |-> v.assets]]
    ELSE IF ~other.assets.nil /\ ~MultiAssetIsEmpty(other.assets)
    THEN [err |-> "asset underflow: no assets to subtract from", v |-> NewSimpleValue(0)]
    ELSE [err |-> "", v |-> [coin |-> v.coin - other.coin, assets |-> NilAssets]]

\* Value.GreaterOrEqual
GreaterOrEqual(v, other) ==
    IF v.coin < other.coin THEN FALSE
    ELSE IF other.assets.nil THEN TRUE
    ELSE IF v.assets.nil THEN MultiAssetIsEmpty(other.assets)
    ELSE \A k \in DOMAIN other.assets.q :
            other.assets.q[k] > 0 => Qty(v.assets, k) >= other.assets.q[k]

\* subtractAssetsSaturating on non-nil maps: each entry of utxoAssets lowers the
\* positive remaining quantity of the same asset by min(utxoQty, reqQty)
subtractAssetsSaturating(remaining, utxoAssets) ==
    [nil |-> FALSE,
     q |-> [k \in DOMAIN remaining.q |->
              IF k \in DOMAIN utxoAssets.q /\ remaining.q[k] > 0
              THEN remaining.q[k] -
                     (IF utxoAssets.q[k] >= remaining.q[k] THEN remaining.q[k] ELSE utxoAssets.q[k])
              ELSE remaining.q[k]]]

----------------------------------------------------------------------------
(* UTxOs: [txid: bytes, index, coin, assets]                               *)

\* utxoRef: hex of the transaction id, "#", the decimal output index
utxoRef(utxo) == HexEncodeToString(utxo.txid) \o <<35>> \o Itoa(utxo.index)

\* the less function SortUtxos hands to sort.Slice
SortUtxosLess(x, y) ==
    IF x.assets.nil = y.assets.nil THEN x.coin > y.coin ELSE ~y.assets.nil

\* SortUtxos: sort.Slice is not stable, so every ordering that respects the less
\* function is an outcome
SortUtxos(utxos) ==
    {s \in Perms(utxos) : \A i, j \in 1..Len(s) : i < j => ~SortUtxosLess(s[j], s[i])}

\* a less function that looks at the transaction id alone
SortInputsLessById(x, y) == SeqLess(HexEncodeToString(x.txid), HexEncodeToString(y.txid))

\* the less function SortInputs hands to sort.Slice
SortInputsLess(x, y) ==
    LET iId == HexEncodeToString(x.txid)
        jId == HexEncodeToString(y.txid)
    IN  IF iId # jId THEN SeqLess(iId, jId) ELSE x.index < y.index

\* SortInputs: the orderings that respect the less function
SortInputs(inputs) ==
    {s \in Perms(inputs) : \A i, j \in 1..Len(s) : i < j => ~SortInputsLess(s[j], s[i])}

\* one pass of the loop of sumUtxoValues: the coin sum saturates at MaxUint64
sumUtxoValuesAdd(total, utxo) ==
    [coin   |-> IF utxo.coin > MaxUint64 - total.coin THEN MaxUint64 ELSE total.coin + utxo.coin,
     assets |-> IF utxo.assets.nil THEN total.assets
                ELSE IF total.assets.nil THEN utxo.assets
                ELSE MultiAssetAdd(total.assets, utxo.assets)]

RECURSIVE sumUtxoValues(_)
\* sumUtxoValues
sumUtxoValues(utxos) ==
    IF utxos = <<>> THEN NewSimpleValue(0)
    ELSE sumUtxoValuesAdd(sumUtxoValues(SubSeq(utxos, 1, Len(utxos) - 1)), utxos[Len(utxos)])

----------------------------------------------------------------------------
(* Coin selection                                                          *)

\* Apollo.isUsed on builder b
isUsed(b, ref) ==
    \/ ref \in Range(b.usedUtxos)
    \/ \E i \in 1..Len(b.preselectedUtxos) : utxoRef(b.preselectedUtxos[i]) = ref

\* the remaining requirement selectCoins starts from
selectCoinsRemaining(required, currentInput) ==
    [coin   |-> IF required.coin > currentInput.coin THEN required.coin - currentInput.coin ELSE 0,
     assets |-> IF required.assets.nil THEN NilAssets
                ELSE IF currentInput.assets.nil THEN required.assets
                ELSE subtractAssetsSaturating(required.assets, currentInput.assets)]

\* a pass that takes any UTxO for the whole of the requirement
selectCoinsTakeAll(remaining, utxo) == [coin |-> 0, assets |-> NilAssets]

\* one pass of the selection loop over utxo: the remaining requirement after it
selectCoinsTake(remaining, utxo) ==
    [coin   |-> IF remaining.coin <= utxo.coin THEN 0 ELSE remaining.coin - utxo.coin,
     assets |-> IF ~remaining.assets.nil /\ ~utxo.assets.nil
                THEN subtractAssetsSaturating(remaining.assets, utxo.assets)
                ELSE remaining.assets]

\* a loop that skips nothing
selectCoinsSkipsNone(b, utxo) == FALSE

RECURSIVE selectCoinsCommitsEarly(_, _, _, _, _)
\* a loop of selectCoins that marks what it has taken used even when it fails
selectCoinsCommitsEarly(b, sorted, i, remaining, selected) ==
    IF i > Len(sorted)
    THEN [selected |-> IF remaining.coin > 0 \/ HasAssets(remaining) THEN <<>> ELSE selected,
          err |-> IF remaining.coin > 0 \/ HasAssets(remaining)
                  THEN "insufficient UTxOs to cover required value" ELSE "",
          usedUtxos |-> b.usedUtxos \o [j \in 1..Len(selected) |-> utxoRef(selected[j])]]
    ELSE IF isUsed(b, utxoRef(sorted[i]))
    THEN selectCoinsCommitsEarly(b, sorted, i + 1, remaining, selected)
    ELSE IF selectCoinsTake(remaining, sorted[i]).coin = 0
            /\ ~HasAssets(selectCoinsTake(remaining, sorted[i]))
    THEN [selected |-> Append(selected, sorted[i]), err |-> "",
          usedUtxos |-> b.usedUtxos
                        \o [j \in 1..Len(selected) + 1 |-> utxoRef(Append(selected, sorted[i])[j])]]
    ELSE selectCoinsCommitsEarly(b, sorted, i + 1, selectCoinsTake(remaining, sorted[i]),
                                 Append(selected, sorted[i]))

\* whether the loop of selectCoins skips a UTxO of the sorted pool
selectCoinsSkips(b, utxo) == isUsed(b, utxoRef(utxo))

RECURSIVE selectCoinsLoop(_, _, _, _, _)
\* the loop of selectCoins from position i of the sorted pool: [selected, err, usedUtxos]
selectCoinsLoop(b, sorted, i, remaining, selected) ==
    IF i > Len(sorted)
    THEN IF remaining.coin > 0 \/ HasAssets(remaining)
         THEN [selected |-> <<>>, err |-> "insufficient UTxOs to cover required value",
               usedUtxos |-> b.usedUtxos]
         ELSE [selected |-> selected, err |-> "",
               usedUtxos |-> b.usedUtxos \o [j \in 1..Len(selected) |-> utxoRef(selected[j])]]
    ELSE IF selectCoinsSkips(b, sorted[i])
    THEN selectCoinsLoop(b, sorted, i + 1, remaining, selected)
    ELSE LET rem == selectCoinsTake(remaining, sorted[i])
             sel == Append(selected, sorted[i])
         IN  IF rem.coin = 0 /\ ~HasAssets(rem)
             THEN [selected |-> sel, err |-> "",
                   usedUtxos |-> b.usedUtxos \o [j \in 1..Len(sel) |-> utxoRef(sel[j])]]
             ELSE selectCoinsLoop(b, sorted, i + 1, rem, sel)

\* Apollo.selectCoins on builder b, given the outcome `sorted` of SortUtxos(b.utxos)
selectCoins(b, sorted, required, currentInput) ==
    IF GreaterOrEqual(currentInput, required)
    THEN [selected |-> <<>>, err |-> "", usedUtxos |-> b.usedUtxos]
    ELSE selectCoinsLoop(b, sorted, 1, selectCoinsRemaining(required, currentInput), <<>>)

----------------------------------------------------------------------------
(* Encoded sizes.  Hashes are kept at one byte in the model (the remaining *)
(* bytes of every hash are zero and left out), and counted at full length. *)

Blake2b224Size == 28

Blake2b256Size == 32

\* the bytes of a hash the model leaves out
HashPad(size) == size - 1

\* the length of a CBOR head carrying the unsigned argument n
UintLen(n) ==
    IF n < 24 THEN 1 ELSE IF n < 256 THEN 2 ELSE IF n < 65536 THEN 3 ELSE 5

\* the length of a CBOR integer, negative ones as major type 1 of -1-n
IntLen(n) == IF n >= 0 THEN UintLen(n) ELSE UintLen(0 - 1 - n)

\* the length of a CBOR byte string of k bytes
BytesLen(k) == UintLen(k) + k

\* Address.Bytes: header byte, payment part, staking part
AddressBytes(addr) == <<addr.hdr>> \o addr.pay \o addr.stake

\* the encoded length of an address
AddressLen(addr) ==
    BytesLen(1 + (IF addr.pay = <<>> THEN 0 ELSE Blake2b224Size)
               + (IF addr.stake = <<>> THEN 0 ELSE Blake2b224Size))

\* Address.StakeKeyHash
StakeKeyHash(addr) == addr.stake

\* the policies of a multi-asset
Policies(m) == {k[1] : k \in DOMAIN m.q}

RECURSIVE SumOver(_, _)
\* the sum of f[x] over the finite set S
SumOver(S, f) ==
    IF S = {} THEN 0 ELSE LET x == CHOOSE y \in S : TRUE IN f[x] + SumOver(S \ {x}, f)

\* the encoded length of a non-nil multi-asset: a map of policies to maps of names to quantities
MultiAssetLen(m) ==
    UintLen(Cardinality(Policies(m)))
    + SumOver(Policies(m),
              [p \in Policies(m) |->
                  BytesLen(Blake2b224Size)
                  + UintLen(Cardinality({k \in DOMAIN m.q : k[1] = p}))])
    + SumOver(DOMAIN m.q, [k \in DOMAIN m.q |-> BytesLen(Len(k[2])) + IntLen(m.q[k])])

\* the encoded length of an output value: a bare coin, or [coin, assets]
ValueLen(coin, assets) ==
    IF assets.nil THEN UintLen(coin) ELSE 1 + UintLen(coin) + MultiAssetLen(assets)

\* the encoded length of a piece of Plutus data (the model's data are small numbers)
DataLen(d) == UintLen(d)

\* the encoded length of a datum option: [0, hash] or [1, #6.24(bytes)]
DatumOptionLen(out) ==
    IF out.datum = "hash" THEN 1 + 1 + 1 + BytesLen(Blake2b256Size)
    ELSE IF out.datum = "inline" THEN 1 + 1 + 1 + 2 + BytesLen(DataLen(out.data))
    ELSE 0

\* NewBabbageOutput
NewBabbageOutput(addr, value) ==
    [addr |-> addr, coin |-> value.coin, assets |-> value.assets, datum |-> "none", data |-> 0]

\* OutputCborSize: a map of address, value and, when present, datum option
OutputCborSize(out) ==
    1 + 1 + AddressLen(out.addr) + 1 + ValueLen(out.coin, out.assets) + DatumOptionLen(out)

\* MinLovelacePostAlonzo
MinLovelacePostAlonzo(out, coinsPerUtxoByte) == coinsPerUtxoByte * (OutputCborSize(out) + 160)

----------------------------------------------------------------------------
(* Units and payments.  Unit: [PolicyId, Name, Quantity], PolicyId and     *)
(* Name strings.  Payment: [Receiver, Lovelace, Units, Datum, Data].       *)

MinLovelace == 1000000

\* the string "lovelace"
LovelaceStr == <<108, 111, 118, 101, 108, 97, 99, 101>>

\* Unit.ToValue: [err, v]
UnitToValue(u) ==
    IF u.PolicyId = <<>> \/ u.PolicyId = LovelaceStr
    THEN IF u.Quantity < 0 THEN [err |-> "negative lovelace quantity", v |-> NewSimpleValue(0)]
         ELSE [err |-> "", v |-> NewSimpleValue(u.Quantity)]
    ELSE IF ~HexValid(u.PolicyId)
    THEN [err |-> "invalid policy ID hex", v |-> NewSimpleValue(0)]
    ELSE IF Len(HexDecodeString(u.PolicyId)) + HashPad(Blake2b224Size) # Blake2b224Size
    THEN [err |-> "invalid policy ID length", v |-> NewSimpleValue(0)]
    ELSE IF ~HexValid(u.Name)
    THEN [err |-> "invalid asset name hex", v |-> NewSimpleValue(0)]
    ELSE [err |-> "",
          v |-> NewValue(0, OneAsset(<<HexDecodeString(u.PolicyId), HexDecodeString(u.Name)>>,
                                     u.Quantity))]

RECURSIVE PaymentUnitsValue(_, _)
\* the loop of Payment.ToValue over the units, from the value v: [err, v]
PaymentUnitsValue(units, v) ==
    IF units = <<>> THEN [err |-> "", v |-> v]
    ELSE IF Head(units).Quantity < 0
    THEN [err |-> "negative asset quantity", v |-> NewSimpleValue(0)]
    ELSE The({IF uv.err # "" THEN [err |-> uv.err, v |-> NewSimpleValue(0)]
              ELSE The({IF sum.err # "" THEN [err |-> sum.err, v |-> NewSimpleValue(0)]
                        ELSE PaymentUnitsValue(Tail(units), sum.v) :
                        sum \in {ValueAdd(v, uv.v)}}) :
              uv \in {UnitToValue(Head(units))}})

\* Payment.ToValue: [err, v]
PaymentToValue(p) ==
    IF p.Lovelace < 0 THEN [err |-> "negative lovelace amount", v |-> NewSimpleValue(0)]
    ELSE PaymentUnitsValue(p.Units, NewSimpleValue(p.Lovelace))

\* Payment.ToTxOut: [err, out]
PaymentToTxOut(p) ==
    The({IF val.err # ""
         THEN [err |-> "failed to compute payment value",
               out |-> NewBabbageOutput(p.Receiver, NewSimpleValue(0))]
         ELSE [err |-> "",
               out |-> [NewBabbageOutput(p.Receiver, val.v) EXCEPT !.datum = p.Datum,
                                                                   !.data = p.Data]] :
         val \in {PaymentToValue(p)}})

\* one pass of EnsureMinUTXO on the payment's output: "" when the lovelace suffices, else
\* the error or the lovelace to raise the payment to, [err, coins]
minUTXOCheck(p, coinsPerUtxoByte) ==
    The({IF txOut.err # "" THEN [err |-> "failed to build tx output", coins |-> 0]
         ELSE [err |-> "", coins |-> MinLovelacePostAlonzo(txOut.out, coinsPerUtxoByte)] :
         txOut \in {PaymentToTxOut(p)}})

RECURSIVE EnsureMinUTXOLoop(_, _, _)
\* the loop of EnsureMinUTXO with n passes left, then its final verification: [err, p]
EnsureMinUTXOLoop(p, coinsPerUtxoByte, n) ==
    The({IF min.err # "" THEN [err |-> min.err, p |-> p]
         ELSE IF p.Lovelace >= min.coins THEN [err |-> "", p |-> p]
         ELSE IF n = 0 THEN [err |-> "min UTxO did not converge after 3 iterations", p |-> p]
         ELSE EnsureMinUTXOLoop([p EXCEPT !.Lovelace = min.coins], coinsPerUtxoByte, n - 1) :
         min \in {minUTXOCheck(p, coinsPerUtxoByte)}})

\* Payment.EnsureMinUTXO against the protocol parameters pp (pp.err: the backend call failed)
EnsureMinUTXO(p, pp) ==
    IF p.Units = <<>> /\ p.Lovelace >= MinLovelace /\ p.Datum = "none"
    THEN [err |-> "", p |-> p]
    ELSE IF pp.err THEN [err |-> "failed to get protocol params", p |-> p]
    ELSE EnsureMinUTXOLoop(p, pp.CoinsPerUtxoByte, 3)

----------------------------------------------------------------------------
(* The backend.  A backend behaviour `be` says which calls fail, what      *)
(* EvaluateTx answers and which protocol parameters ProtocolParams returns *)
(* in each phase of Complete: phase 0 is everything before the fee loop,   *)
(* phase i its i-th iteration.                                             *)

\* the protocol parameters of NewEmptyFixedChainContext
DefaultParams ==
    [err |-> FALSE, MinFeeConstant |-> 155381, MinFeeCoefficient |-> 44, MaxTxSize |-> 16384,
     CoinsPerUtxoByte |-> 4310, CollateralPercent |-> 150, KeyDeposits |-> Itoa(2000000)]

\* the same with the fee constant raised by d: the parameters after a parameter update
RaisedParams(d) == [DefaultParams EXCEPT !.MinFeeConstant = @ + d]

\* ChainContext.ProtocolParams in the given phase
ProtocolParams(be, phase) ==
    IF be.ppErr THEN [DefaultParams EXCEPT !.err = TRUE] ELSE be.pp[phase]

\* ComputeMaxTxFee
ComputeMaxTxFee(pp) == pp.MaxTxSize * pp.MinFeeCoefficient + pp.MinFeeConstant

\* the execution-unit prices of NewEmptyFixedChainContext, 0.0577 and 0.0000721, in 1e-7
PriceMemE7 == 577000

PriceStepE7 == 721

\* math.Ceil(priceMem * totalMem + priceStep * totalSteps)
ExUnitFee(totalMem, totalSteps) ==
    (PriceMemE7 * totalMem + PriceStepE7 * totalSteps + 9999999) \div 10000000

\* the execution units EvaluateTx reports for every redeemer of the transaction
EvalUnits == [Memory |-> 100, Steps |-> 10000]

\* int64(float64(units) * (1 + ExMemoryBuffer)): the 20% buffer
Buffered(units) == [Memory |-> (units.Memory * 12) \div 10, Steps |-> (units.Steps * 12) \div 10]

----------------------------------------------------------------------------
(* The builder                                                             *)

NoWallet == [set |-> FALSE, addr |-> [hdr |-> 0, pay |-> <<>>, stake |-> <<>>]]

NoOutput == [set |-> FALSE, out |-> NewBabbageOutput(NoWallet.addr, NewSimpleValue(0))]

\* a nil *ConwayTransaction
NoTx ==
    [built |-> FALSE, inputs |-> <<>>, outputs |-> <<>>, fee |-> 0, redeemers |-> EmptyQ,
     mintPolicies |-> <<>>, withdrawals |-> <<>>, collateral |-> <<>>, totalCollateral |-> 0,
     collateralReturn |-> NoOutput]

\* New(cc)
New ==
    [tx |-> NoTx, wallet |-> NoWallet, payments |-> <<>>, utxos |-> <<>>,
     preselectedUtxos |-> <<>>, inputAddresses |-> <<>>, usedUtxos |-> <<>>,
     redeemers |-> EmptyQ, mintRedeemers |-> EmptyQ, stakeRedeemers |-> EmptyQ,
     mint |-> <<>>, withdrawals |-> EmptyQ, collaterals |-> <<>>, totalCollateral |-> 0,
     collateralReturn |-> NoOutput, collateralAmount |-> 0, certificates |-> <<>>,
     requiredSigners |-> 0, Fee |-> 0, FeePadding |-> 0, forceFee |-> FALSE,
     isEstimateRequired |-> FALSE, estimateExUnits |-> TRUE,
     scriptHashes |-> <<>>, v1scripts |-> <<>>, v2scripts |-> <<>>, v3scripts |-> <<>>,
     referenceInputs |-> <<>>, changeAddress |-> [set |-> FALSE, addr |-> NoWallet.addr]]

\* what a call that is not Complete reports about the fee loop
NoTrace ==
    [totalInput |-> NewSimpleValue(0), totalRequired |-> NewSimpleValue(0), change |-> "none",
     unsettled |-> FALSE, iterations |-> 0, selected |-> <<>>, usedBefore |-> <<>>]

\* what the last call returned
Returned(op, err) == [op |-> op, err |-> err, trace |-> NoTrace]

\* a function extended or overwritten at one key, as a Go map assignment m[k] = v
MapSet(m, k, v) == [x \in (DOMAIN m) \cup {k} |-> IF x = k THEN v ELSE m[x]]

----------------------------------------------------------------------------
(* Redeemer indices                                                        *)

\* the elements of a finite set of distinct sequences in ascending order of key(x)
SortedBy(S, key(_)) ==
    [i \in 1..Cardinality(S) |->
        CHOOSE x \in S : Cardinality({y \in S : SeqLess(key(y), key(x))}) = i - 1]

\* the order sortedMintPolicyIds puts two policy id strings in (sort.Strings)
MintPolicyKey(policyId) == policyId

\* sortedMintPolicyIds: the distinct PolicyId strings of the mint units, sorted as strings
sortedMintPolicyIds(b) == SortedBy({b.mint[i].PolicyId : i \in 1..Len(b.mint)}, MintPolicyKey)

\* a comparison of withdrawal keys by the credential digest, without the header byte
WithdrawalKeyDigest(addr) == StakeKeyHash(addr)

\* the bytes sortedWithdrawalKeys compares two withdrawal keys by
WithdrawalKeyBytes(addr) == AddressBytes(addr)

\* sortedWithdrawalKeys: the withdrawal keys sorted by the raw address bytes
sortedWithdrawalKeys(b) == SortedBy(DOMAIN b.withdrawals, WithdrawalKeyBytes)

\* the first position (from 0) of an element of seq satisfying P, -1 when there is none
FirstIndex(seq, P(_)) ==
    IF \E i \in 1..Len(seq) : P(seq[i])
    THEN (CHOOSE i \in 1..Len(seq) : P(seq[i]) /\ \A j \in 1..(i - 1) : ~P(seq[j])) - 1
    ELSE -1

\* the index buildRedeemerMap gives the spend redeemer keyed ref, -1 when not found
SpendIndex(inputs, ref) == LET P(u) == utxoRef(u) = ref IN FirstIndex(inputs, P)

\* the index buildRedeemerMap gives the mint redeemer keyed policyHex
MintIndex(b, policyHex) == LET P(x) == x = policyHex IN FirstIndex(sortedMintPolicyIds(b), P)

\* the index buildRedeemerMap gives the stake redeemer keyed skhHex
RewardIndex(b, skhHex) ==
    LET P(addrKey) == HexEncodeToString(StakeKeyHash(b.withdrawals[addrKey].Address)) = skhHex
    IN  FirstIndex(sortedWithdrawalKeys(b), P)

\* the redeemers buildRedeemerMap finds a place for: <<tag, index, key>>
foundRedeemers(b, inputs) ==
    {t \in {<<"spend", SpendIndex(inputs, r), r>> : r \in DOMAIN b.redeemers}
           \cup {<<"mint", MintIndex(b, r), r>> : r \in DOMAIN b.mintRedeemers}
           \cup {<<"reward", RewardIndex(b, r), r>> : r \in DOMAIN b.stakeRedeemers} :
        t[2] >= 0}

\* the redeemerEntry a found redeemer stands for
redeemerEntry(b, t) ==
    IF t[1] = "spend" THEN b.redeemers[t[3]]
    ELSE IF t[1] = "mint" THEN b.mintRedeemers[t[3]]
    ELSE b.stakeRedeemers[t[3]]

\* the result map of buildRedeemerMap over the found redeemers
redeemerMapOf(b, found) ==
    [k \in {<<t[1], t[2]>> : t \in found} |->
        redeemerEntry(b, CHOOSE x \in found : <<x[1], x[2]>> = k)]

\* Apollo.buildRedeemerMap: <<tag, index>> |-> [Data, ExUnits]
buildRedeemerMap(b, inputs) == redeemerMapOf(b, foundRedeemers(b, inputs))

----------------------------------------------------------------------------
(* Transaction size and fee                                                *)

\* buildMintAsset fails on a mint unit whose policy id or name is not hex of the right length
buildMintAssetErr(b) ==
    \E i \in 1..Len(b.mint) :
        \/ ~HexValid(b.mint[i].PolicyId)
        \/ Len(HexDecodeString(b.mint[i].PolicyId)) + HashPad(Blake2b224Size) # Blake2b224Size
        \/ ~HexValid(b.mint[i].Name)

\* whether buildBody computes a script data hash
hasScriptData(b) ==
    DOMAIN b.redeemers # {} \/ DOMAIN b.mintRedeemers # {} \/ DOMAIN b.stakeRedeemers # {}

\* the error buildBody returns, "" when it builds the body
buildBodyErr(b, be) ==
    IF b.mint # <<>> /\ buildMintAssetErr(b) THEN "invalid mint policy ID hex"
    ELSE IF hasScriptData(b) /\ be.ppErr THEN "protocol params"
    ELSE ""

RECURSIVE buildMintAssetLoop(_, _)
\* the loop of buildMintAsset: quantities of one policy and name are added up
buildMintAssetLoop(units, m) ==
    IF units = <<>> THEN m
    ELSE buildMintAssetLoop(Tail(units),
            MultiAssetAdd(m, OneAsset(<<HexDecodeString(Head(units).PolicyId),
                                        HexDecodeString(Head(units).Name)>>,
                                      Head(units).Quantity)))

\* Apollo.buildMintAsset when it does not fail: the mint field of the body
buildMintAsset(b) == buildMintAssetLoop(b.mint, [nil |-> FALSE, q |-> EmptyQ])

RECURSIVE mintValueLoop(_, _)
\* the loop of mintValue from the total v: [err, v]
mintValueLoop(units, v) ==
    IF units = <<>> THEN [err |-> "", v |-> v]
    ELSE The({IF uv.err # "" THEN [err |-> "invalid mint unit", v |-> NewSimpleValue(0)]
              ELSE The({IF sum.err # "" THEN [err |-> "mint value overflow", v |-> NewSimpleValue(0)]
                        ELSE mintValueLoop(Tail(units), sum.v) :
                        sum \in {ValueAdd(v, uv.v)}}) :
              uv \in {UnitToValue(Head(units))}})

\* Apollo.mintValue: [err, v]
mintValue(b) == mintValueLoop(b.mint, NewSimpleValue(0))

\* the encoded length of one transaction input: [txid, index]
InputLen(utxo) == 1 + BytesLen(Blake2b256Size) + UintLen(utxo.index)

\* the encoded length of a tagged set of n items of the given lengths
SetLen(n, itemsLen) == 3 + UintLen(n) + itemsLen

\* the sum of f(seq[i]) over a sequence
SeqSum(seq, f(_)) == SumOver(1..Len(seq), [i \in 1..Len(seq) |-> f(seq[i])])

\* the encoded length of the body buildBody builds with the given fee
BodyLen(b, inputs, outputs, fee) ==
    LET wd(addrKey) == AddressLen(b.withdrawals[addrKey].Address)
                       + UintLen(b.withdrawals[addrKey].Amount)
    IN  1
        + 1 + SetLen(Len(inputs), SeqSum(inputs, InputLen))
        + 1 + UintLen(Len(outputs)) + SeqSum(outputs, OutputCborSize)
        + 1 + UintLen(fee)
        + (IF b.mint # <<>> THEN 1 + MultiAssetLen(buildMintAsset(b)) ELSE 0)
        + (IF b.requiredSigners > 0
           THEN 1 + SetLen(b.requiredSigners, b.requiredSigners * BytesLen(Blake2b224Size)) ELSE 0)
        + (IF b.certificates # <<>>
           THEN 1 + UintLen(Len(b.certificates))
                  + Len(b.certificates) * (1 + 1 + 1 + 1 + BytesLen(Blake2b224Size)) ELSE 0)
        + (IF DOMAIN b.withdrawals # {}
           THEN 1 + UintLen(Cardinality(DOMAIN b.withdrawals))
                  + SumOver(DOMAIN b.withdrawals, [k \in DOMAIN b.withdrawals |-> wd(k)]) ELSE 0)
        + (IF b.collaterals # <<>>
           THEN 1 + SetLen(Len(b.collaterals), SeqSum(b.collaterals, InputLen))
                + (IF b.totalCollateral > 0 THEN 1 + UintLen(b.totalCollateral) ELSE 0)
                + (IF b.collateralReturn.set THEN 1 + OutputCborSize(b.collateralReturn.out) ELSE 0)
           ELSE 0)
        + (IF hasScriptData(b) THEN 1 + BytesLen(Blake2b256Size) ELSE 0)
        + 1 + 1

\* the encoded length of one redeemer: key [tag, index], value [data, [mem, steps]]
RedeemerLen(k, v) ==
    1 + 1 + UintLen(k[2]) + 1 + DataLen(v.Data) + 1 + UintLen(v.ExUnits.Memory)
      + UintLen(v.ExUnits.Steps)

\* the encoded length of the witness set with n verification-key witnesses and redeemers rm
WitnessSetLen(rm, n) ==
    1
    + (IF n > 0 THEN 1 + SetLen(n, n * (1 + BytesLen(32) + BytesLen(64))) ELSE 0)
    + (IF DOMAIN rm # {}
       THEN 1 + UintLen(Cardinality(DOMAIN rm))
              + SumOver(DOMAIN rm, [k \in DOMAIN rm |-> RedeemerLen(k, rm[k])])
       ELSE 0)

\* the fee of a dummy transaction: size times coefficient, constant, execution units
feeOf(pp, bodyLen, rm, witnessCount) ==
    (1 + bodyLen + WitnessSetLen(rm, witnessCount) + 1 + 1) * pp.MinFeeCoefficient
    + pp.MinFeeConstant
    + (IF DOMAIN rm # {}
       THEN ExUnitFee(SumOver(DOMAIN rm, [k \in DOMAIN rm |-> rm[k].ExUnits.Memory]),
                      SumOver(DOMAIN rm, [k \in DOMAIN rm |-> rm[k].ExUnits.Steps]))
       ELSE 0)

\* estimateFee once the parameters and the body error are known: [err, fee]
estimateFeeWith(b, pp, bodyErr, inputs, outputs) ==
    IF pp.err THEN [err |-> "protocol params", fee |-> 0]
    ELSE IF bodyErr # "" THEN [err |-> bodyErr, fee |-> 0]
    ELSE [err |-> "",
          fee |-> feeOf(pp, BodyLen(b, inputs, outputs, 0), buildRedeemerMap(b, inputs),
                        1 + b.requiredSigners)]

\* Apollo.estimateFee with the backend in the given phase: [err, fee]
estimateFee(b, be, phase, inputs, outputs) ==
    estimateFeeWith(b, ProtocolParams(be, phase), buildBodyErr(b, be), inputs, outputs)

----------------------------------------------------------------------------
(* The addresses, UTxOs and units the builder is driven with               *)

\* a base address (header 0x01), an enterprise address (0x61), and reward addresses
\* of a key credential (0xe1) and of a script credential (0xf1)
WalletAddr == [hdr |-> 1, pay |-> <<17>>, stake |-> <<34>>]

Receiver == [hdr |-> 97, pay |-> <<51>>, stake |-> <<>>]

RewardKeyAddr(h) == [hdr |-> 225, pay |-> <<>>, stake |-> <<h>>]

RewardScriptAddr(h) == [hdr |-> 241, pay |-> <<>>, stake |-> <<h>>]

\* a UTxO
Utxo(txid, index, coin, assets) ==
    [txid |-> <<txid>>, index |-> index, coin |-> coin, assets |-> assets]

\* the policy id strings "ab", "cd" and the upper-case "AC"
PolicyAb == <<97, 98>>

PolicyCd == <<99, 100>>

PolicyAC == <<65, 67>>

\* the asset name string "01"
Name01 == <<48, 49>>

\* one token of policy "ab", name "01", as a UTxO holds it
TokenAb(n) == OneAsset(<<HexDecodeString(PolicyAb), HexDecodeString(Name01)>>, n)

\* the UTxOs the chain holds at the wallet address
WalletUtxos ==
    << Utxo(16, 0, 3000000, NilAssets),
       Utxo(16, 1, 10000000, NilAssets),
       Utxo(32, 0, 2000000, TokenAb(5)) >>

\* ChainContext.Utxos(addr) when it does not fail
ChainUtxos(addr) == IF addr = WalletAddr THEN WalletUtxos ELSE <<>>

----------------------------------------------------------------------------
(* The stages of Complete                                                  *)

\* uint64 addition, which wraps
AddWrap(x, y) == IF x > MaxUint64 - y THEN x - (MaxUint64 - y) - 1 ELSE x + y

\* StakeDeposit, the fallback deposit per certificate
StakeDeposit == 2000000

\* the fallback collateral of setCollateral
FallbackCollateral == 5000000

\* hasScripts: attached Plutus scripts, or redeemers (of reference scripts)
hasScripts(b) ==
    b.v1scripts # <<>> \/ b.v2scripts # <<>> \/ b.v3scripts # <<>> \/ hasScriptData(b)

\* getChangeAddress: the explicit change address when one is set, else the wallet's
getChangeAddress(b) == IF b.changeAddress.set THEN b.changeAddress.addr ELSE b.wallet.addr

\* ChainContext.MaxTxFee: [err, fee]
MaxTxFee(be) ==
    IF be.maxFeeErr \/ be.ppErr THEN [err |-> TRUE, fee |-> 0]
    ELSE [err |-> FALSE, fee |-> ComputeMaxTxFee(ProtocolParams(be, 0))]

\* the collateral amount setCollateral looks for
minCollateral(b, be) ==
    LET pp       == ProtocolParams(be, 0)
        computed == (MaxTxFee(be).fee * pp.CollateralPercent) \div 100
    IN  IF b.collateralAmount > 0 THEN b.collateralAmount
        ELSE IF ~pp.err /\ ~MaxTxFee(be).err /\ pp.CollateralPercent > 0 /\ computed > 0
        THEN computed
        ELSE FallbackCollateral

\* whether setCollateral takes the candidate utxo
collateralFits(b, utxo, min) ==
    ~isUsed(b, utxoRef(utxo)) /\ utxo.assets.nil /\ utxo.coin >= min

\* setCollateral taking candidate number `at` (none when 0) for the amount min
setCollateralFrom(b, min, candidates, at) ==
    IF at = 0 THEN b
    ELSE [b EXCEPT !.collaterals = Append(@, candidates[at]),
                   !.usedUtxos = Append(@, utxoRef(candidates[at])),
                   !.totalCollateral = min,
                   !.collateralReturn =
                       IF candidates[at].coin - min > 0
                       THEN [set |-> TRUE,
                             out |-> NewBabbageOutput(getChangeAddress(b),
                                        NewSimpleValue(candidates[at].coin - min))]
                       ELSE @]

\* the place (from 1) of the first candidate setCollateral can take, 0 when there is none
firstCollateral(b, min, candidates) ==
    IF \E i \in 1..Len(candidates) : collateralFits(b, candidates[i], min)
    THEN CHOOSE i \in 1..Len(candidates) :
            /\ collateralFits(b, candidates[i], min)
            /\ \A j \in 1..(i - 1) : ~collateralFits(b, candidates[j], min)
    ELSE 0

\* Apollo.setCollateral: the builder after it
setCollateral(b, be) ==
    IF b.collaterals # <<>> \/ ~hasScripts(b) THEN b
    ELSE The({setCollateralFrom(b, min, candidates, firstCollateral(b, min, candidates)) :
              min \in {minCollateral(b, be)},
              candidates \in {IF b.utxos = <<>> /\ b.wallet.set /\ ~be.utxosErr
                              THEN ChainUtxos(b.wallet.addr) ELSE b.utxos}})

RECURSIVE loadUtxosLoop(_, _)
\* the loop of loadUtxos over the input addresses: the UTxOs it appends
loadUtxosLoop(addrs, utxos) ==
    IF addrs = <<>> THEN utxos ELSE loadUtxosLoop(Tail(addrs), utxos \o ChainUtxos(Head(addrs)))

\* Apollo.loadUtxos: [err, b]
loadUtxos(b, be) ==
    IF b.inputAddresses # <<>> /\ be.utxosErr THEN [err |-> "failed to load UTxOs", b |-> b]
    ELSE The({IF loaded = <<>> /\ b.preselectedUtxos = <<>> /\ b.wallet.set
              THEN IF be.utxosErr THEN [err |-> "failed to load wallet UTxOs", b |-> b]
                   ELSE [err |-> "", b |-> [b EXCEPT !.utxos = ChainUtxos(b.wallet.addr)]]
              ELSE [err |-> "", b |-> [b EXCEPT !.utxos = loaded]] :
              loaded \in {loadUtxosLoop(b.inputAddresses, b.utxos)}})

RECURSIVE buildOutputsLoop(_, _, _, _)
\* the loop of buildOutputs from payment i: [err, payments, outputs]; EnsureMinUTXO
\* raises the payment in place
buildOutputsLoop(payments, pp, i, outputs) ==
    IF i > Len(payments) THEN [err |-> "", payments |-> payments, outputs |-> outputs]
    ELSE The({
        IF ens.err # ""
        THEN [err |-> "failed to ensure min UTxO",
              payments |-> [payments EXCEPT ![i] = ens.p], outputs |-> <<>>]
        ELSE The({
            IF txOut.err # ""
            THEN [err |-> "failed to build payment output",
                  payments |-> [payments EXCEPT ![i] = ens.p], outputs |-> <<>>]
            ELSE buildOutputsLoop([payments EXCEPT ![i] = ens.p], pp, i + 1,
                                  Append(outputs, txOut.out)) :
            txOut \in {PaymentToTxOut(ens.p)}}) :
        ens \in {EnsureMinUTXO(payments[i], pp)}})

\* Apollo.buildOutputs
buildOutputs(b, be) == buildOutputsLoop(b.payments, ProtocolParams(be, 0), 1, <<>>)

RECURSIVE totalOutputValue(_)
\* Apollo.totalOutputValue: [err, v]
totalOutputValue(outputs) ==
    IF outputs = <<>> THEN [err |-> "", v |-> NewSimpleValue(0)]
    ELSE The({
        IF rest.err # "" THEN rest
        ELSE The({IF sum.err # "" THEN [err |-> "output value overflow", v |-> NewSimpleValue(0)]
                  ELSE sum :
                  sum \in {ValueAdd(rest.v, NewValue(outputs[Len(outputs)].coin,
                                                     outputs[Len(outputs)].assets))}}) :
        rest \in {totalOutputValue(SubSeq(outputs, 1, Len(outputs) - 1))}})

RECURSIVE ParseDigits(_, _)
\* the number the decimal digits of str stand for, after the leading digits worth n
ParseDigits(str, n) ==
    IF str = <<>> THEN n ELSE ParseDigits(Tail(str), 10 * n + (Head(str) - 48))

\* strconv.ParseInt(str, 10, 64) of a string of at most nine characters: [err, n]; a
\* sign may lead the digits
ParseInt(str) ==
    The({IF digits = <<>> \/ \E i \in 1..Len(digits) : digits[i] < 48 \/ digits[i] > 57
         THEN [err |-> TRUE, n |-> 0]
         ELSE [err |-> FALSE,
               n |-> IF str[1] = 45 THEN 0 - ParseDigits(digits, 0) ELSE ParseDigits(digits, 0)] :
         digits \in {IF str # <<>> /\ str[1] \in {43, 45} THEN Tail(str) ELSE str}})

\* the deposit per certificate Complete uses
stakeDeposit(be) ==
    LET pp == ProtocolParams(be, 0)
    IN  IF ~pp.err /\ ~ParseInt(pp.KeyDeposits).err /\ ParseInt(pp.KeyDeposits).n > 0
        THEN ParseInt(pp.KeyDeposits).n
        ELSE StakeDeposit

\* certificateDepositAdjustment: registrations add the deposit, deregistrations take it off
certificateDepositAdjustment(b, depositPerCert) ==
    depositPerCert * (Cardinality({i \in 1..Len(b.certificates) : b.certificates[i] = "reg"})
                      - Cardinality({i \in 1..Len(b.certificates) : b.certificates[i] = "dereg"}))

\* adjustForCertificateDeposits: the addition is unchecked
adjustForCertificateDeposits(b, required, depositPerCert) ==
    LET adj == certificateDepositAdjustment(b, depositPerCert)
    IN  IF adj > 0 THEN [required EXCEPT !.coin = AddWrap(@, adj)] ELSE required

\* certificateRefundValue
certificateRefundValue(b, depositPerCert) ==
    LET adj == certificateDepositAdjustment(b, depositPerCert)
    IN  IF adj < 0 THEN NewSimpleValue(0 - adj) ELSE NewSimpleValue(0)

RECURSIVE withdrawalSum(_, _)
\* the sum of the withdrawal amounts taken in the order seq, saturating at MaxUint64
withdrawalSum(b, seq) ==
    IF seq = <<>> THEN 0
    ELSE The({IF total = MaxUint64 \/ b.withdrawals[seq[Len(seq)]].Amount > MaxUint64 - total
              THEN MaxUint64
              ELSE total + b.withdrawals[seq[Len(seq)]].Amount :
              total \in {withdrawalSum(b, SubSeq(seq, 1, Len(seq) - 1))}})

\* totalWithdrawalValue
totalWithdrawalValue(b) == NewSimpleValue(withdrawalSum(b, sortedWithdrawalKeys(b)))

\* the redeemer keys EvaluateTx reports on: every redeemer of the preliminary transaction,
\* or none
evalResult(b, be, inputs) == IF be.eval = "all" THEN DOMAIN buildRedeemerMap(b, inputs) ELSE {}

\* a redeemer table with the buffered units written to the entries the keys select
withUnits(entries, hit) ==
    [r \in DOMAIN entries |->
        IF r \in hit THEN [entries[r] EXCEPT !.ExUnits = Buffered(EvalUnits)] ELSE entries[r]]

\* the update loop of estimateExecutionUnits over the evaluated keys
applyUnits(b, inputs, keys, policies, wdAddrs) ==
    [b EXCEPT
        !.redeemers = withUnits(@,
            {utxoRef(inputs[k[2] + 1]) : k \in {x \in keys : x[1] = "spend" /\ x[2] < Len(inputs)}}),
        !.mintRedeemers = withUnits(@,
            {policies[k[2] + 1] : k \in {x \in keys : x[1] = "mint" /\ x[2] < Len(policies)}}),
        !.stakeRedeemers = withUnits(@,
            {HexEncodeToString(StakeKeyHash(b.withdrawals[wdAddrs[k[2] + 1]].Address)) :
                k \in {x \in keys : x[1] = "reward" /\ x[2] < Len(wdAddrs)}})]

\* Apollo.estimateExecutionUnits: [err, b]
estimateExecutionUnits(b, be, inputs) ==
    IF buildBodyErr(b, be) # ""
    THEN [err |-> "failed to build preliminary tx body", b |-> b]
    ELSE IF be.eval = "err" THEN [err |-> "EvaluateTx failed", b |-> b]
    ELSE [err |-> "",
          b |-> applyUnits(b, inputs, evalResult(b, be, inputs), sortedMintPolicyIds(b),
                           sortedWithdrawalKeys(b))]

\* maxFeeIterations
maxFeeIterations == 3

\* a change test that lets any change through
changeAlwaysMeetsMin(coin, minChange) == TRUE

\* int64(changeValue.Coin) >= minChange: the change is large enough for an output of its own
changeMeetsMin(coin, minChange) == coin >= minChange

\* the change output with its lovelace raised to the minimum, and to the minimum of the
\* raised output when that is larger
raisedChange(changeAddr, changeValue, minChange, coinsPerUtxoByte) ==
    The({NewBabbageOutput(changeAddr,
            [changeValue EXCEPT !.coin = IF actualMin > minChange THEN actualMin ELSE minChange]) :
         actualMin \in {MinLovelacePostAlonzo(
                            NewBabbageOutput(changeAddr, [changeValue EXCEPT !.coin = minChange]),
                            coinsPerUtxoByte)}})

\* the sum of the lovelace of the outputs, as uint64
RECURSIVE outputCoins(_)
outputCoins(outputs) ==
    IF outputs = <<>> THEN 0 ELSE AddWrap(Head(outputs).coin, outputCoins(Tail(outputs)))

\* the output side of the balance check of a raised change: outputs, change, fee, deposits
totalOutputCoin(outputs, changeCoin, fee, depositAdj) ==
    IF depositAdj > 0
    THEN AddWrap(AddWrap(outputCoins(outputs), AddWrap(changeCoin, fee)), depositAdj)
    ELSE AddWrap(outputCoins(outputs), AddWrap(changeCoin, fee))

\* the balance check of a raised change output: [err, outputs, change]
raisedChangeStep(b, be, baseOutputs, totalInput, fee, raised) ==
    IF totalOutputCoin(baseOutputs, raised.coin, fee,
                       certificateDepositAdjustment(b, stakeDeposit(be))) > totalInput.coin
    THEN [err |-> "insufficient funds", outputs |-> baseOutputs, change |-> "none"]
    ELSE [err |-> "", outputs |-> Append(baseOutputs, raised), change |-> "raised"]

\* the change step once the change is known to be positive: [err, outputs, change]
changeOutput(b, be, pp, baseOutputs, totalInput, fee, changeValue) ==
    IF pp.err
    THEN [err |-> "failed to get protocol params for change output",
          outputs |-> baseOutputs, change |-> "none"]
    ELSE The({
        IF changeMeetsMin(changeValue.coin, minChange)
        THEN [err |-> "",
              outputs |-> Append(baseOutputs, NewBabbageOutput(getChangeAddress(b), changeValue)),
              change |-> "appended"]
        ELSE IF HasAssets(changeValue)
        THEN raisedChangeStep(b, be, baseOutputs, totalInput, fee,
                              raisedChange(getChangeAddress(b), changeValue, minChange,
                                           pp.CoinsPerUtxoByte))
        ELSE [err |-> "", outputs |-> baseOutputs, change |-> "dropped"] :
        minChange \in {MinLovelacePostAlonzo(NewBabbageOutput(getChangeAddress(b), changeValue),
                                             pp.CoinsPerUtxoByte)}})

\* the change left of the inputs after the outputs and the fee: [err, v]
changeOf(totalRequired, totalInput, fee) ==
    The({IF totalNeeded.err # "" THEN [err |-> "required value overflow", v |-> NewSimpleValue(0)]
         ELSE The({IF changeValue.err # ""
                   THEN [err |-> "insufficient funds", v |-> NewSimpleValue(0)]
                   ELSE changeValue :
                   changeValue \in {ValueSub(totalInput, totalNeeded.v)}}) :
         totalNeeded \in {ValueAdd(totalRequired, NewSimpleValue(fee))}})

\* the change step of one iteration in the given phase: [err, outputs, change], change
\* one of "none", "appended", "raised", "dropped"
changeStep(b, be, phase, baseOutputs, totalRequired, totalInput, fee) ==
    The({IF changeValue.err # ""
         THEN [err |-> changeValue.err, outputs |-> baseOutputs, change |-> "none"]
         ELSE IF ~(changeValue.v.coin > 0 \/ HasAssets(changeValue.v))
         THEN [err |-> "", outputs |-> baseOutputs, change |-> "none"]
         ELSE changeOutput(b, be, ProtocolParams(be, phase), baseOutputs, totalInput, fee,
                           changeValue.v) :
         changeValue \in {changeOf(totalRequired, totalInput, fee)}})

\* fee + FeePadding, not below zero
padded(b, fee) == IF fee + b.FeePadding < 0 THEN 0 ELSE fee + b.FeePadding

\* the re-estimate that ends an iteration: [err, fee], the fee unchanged when the user
\* set one
reestimate(b, be, phase, inputs, outputs, fee) ==
    IF b.Fee > 0 THEN [err |-> "", fee |-> fee]
    ELSE The({IF est.err # "" THEN [err |-> "fee re-estimation failed", fee |-> fee]
              ELSE [err |-> "", fee |-> padded(b, est.fee)] :
              est \in {estimateFee(b, be, phase, inputs, outputs)}})

\* what the loop returns
feeLoopResult(err, step, fee, unsettled, i) ==
    [err |-> err, outputs |-> step.outputs, fee |-> fee, change |-> step.change,
     unsettled |-> unsettled, iterations |-> i]

RECURSIVE feeLoop(_, _, _, _, _, _, _, _)
\* the fee/change loop from iteration i with the current fee:
\* [err, outputs, fee, change, unsettled, iterations]
feeLoop(b, be, inputs, baseOutputs, totalRequired, totalInput, fee, i) ==
    The({
        IF step.err # "" THEN feeLoopResult(step.err, step, fee, FALSE, i)
        ELSE The({
            IF new.err # "" THEN feeLoopResult(new.err, step, fee, FALSE, i)
            ELSE IF new.fee <= fee THEN feeLoopResult("", step, fee, FALSE, i)
            ELSE IF i = maxFeeIterations THEN feeLoopResult("", step, new.fee, TRUE, i)
            ELSE feeLoop(b, be, inputs, baseOutputs, totalRequired, totalInput, new.fee, i + 1) :
            new \in {reestimate(b, be, i, inputs, step.outputs, fee)}}) :
        step \in {changeStep(b, be, i, baseOutputs, totalRequired, totalInput, fee)}})

----------------------------------------------------------------------------
(* Complete                                                                *)

\* what Complete reports of its run besides the error
Trace(totalInput, totalRequired, loop, selected, usedBefore) ==
    [totalInput |-> totalInput, totalRequired |-> totalRequired, change |-> loop.change,
     unsettled |-> loop.unsettled, iterations |-> loop.iterations, selected |-> selected,
     usedBefore |-> usedBefore]

\* the identity, as a sort key
Self(x) == x

\* the transaction Complete assembles
BuiltTx(b, inputs, outputs, fee) ==
    [built |-> TRUE, inputs |-> inputs, outputs |-> outputs, fee |-> fee,
     redeemers |-> buildRedeemerMap(b, inputs),
     mintPolicies |-> IF b.mint = <<>> THEN <<>>
                      ELSE SortedBy(Policies(buildMintAsset(b)), Self),
     withdrawals |-> SortedBy({b.withdrawals[k].Address : k \in DOMAIN b.withdrawals}, AddressBytes),
     collateral |-> b.collaterals, totalCollateral |-> b.totalCollateral,
     collateralReturn |-> b.collateralReturn]

\* a failed step of Complete that leaves the builder as b
Failed(b, e) == [b |-> b, err |-> e, trace |-> NoTrace]

\* the mint and the refunds added to the sum wd of the UTxOs and the withdrawals: [err, v]
implicitMint(b, be, wd) ==
    The({IF mv.err # "" THEN mv
         ELSE The({
            IF minted.err # "" THEN [err |-> "mint value overflow", v |-> wd]
            ELSE IF certificateRefundValue(b, stakeDeposit(be)).coin = 0 THEN minted
            ELSE The({IF total.err # "" THEN [err |-> "refund value overflow", v |-> wd]
                      ELSE total :
                      total \in {ValueAdd(minted.v, certificateRefundValue(b, stakeDeposit(be)))}}) :
            minted \in {ValueAdd(wd, mv.v)}}) :
         mv \in {IF b.mint # <<>> THEN mintValue(b) ELSE [err |-> "", v |-> NewSimpleValue(0)]}})

\* the implicit inputs of the balance: withdrawals, mint, refunds added to v: [err, v]
implicitInputs(b, be, v) ==
    The({IF wd.err # "" THEN [err |-> "withdrawal value overflow", v |-> v]
         ELSE implicitMint(b, be, wd.v) :
         wd \in {IF DOMAIN b.withdrawals # {} THEN ValueAdd(v, totalWithdrawalValue(b))
                 ELSE [err |-> "", v |-> v]}})

\* the first fee of Complete: [err, fee]
initialFee(b, be, inputs, outputs) ==
    IF b.forceFee THEN [err |-> "", fee |-> padded(b, b.Fee)]
    ELSE The({IF est.err # "" THEN [err |-> "fee estimation failed", fee |-> 0]
              ELSE [err |-> "", fee |-> padded(b, IF b.Fee > 0 THEN b.Fee ELSE est.fee)] :
              est \in {estimateFee(b, be, 0, inputs, outputs)}})

\* Complete from the loop on: [b, err, trace]
completeLoop(b3, be, inputs, outputs, totalRequired, totalInput, fee, selected, usedBefore) ==
    The({IF loop.err # "" THEN Failed(b3, loop.err)
         ELSE IF buildBodyErr(b3, be) # "" THEN Failed(b3, buildBodyErr(b3, be))
         ELSE [b     |-> [b3 EXCEPT !.tx = BuiltTx(b3, inputs, loop.outputs, loop.fee)],
               err   |-> "",
               trace |-> Trace(totalInput, totalRequired, loop, selected, usedBefore)] :
         loop \in {feeLoop(b3, be, inputs, outputs, totalRequired, totalInput, fee, 1)}})

\* Complete from the fee estimate on, builder b3 after ExUnit estimation: [b, err, trace]
completeFee(b3, be, inputs, outputs, totalRequired, selected, usedBefore) ==
    The({IF fee.err # "" THEN Failed(b3, fee.err)
         ELSE IF totalInput.err # "" THEN Failed(b3, totalInput.err)
         ELSE completeLoop(b3, be, inputs, outputs, totalRequired, totalInput.v, fee.fee,
                           selected, usedBefore) :
         fee \in {initialFee(b3, be, inputs, outputs)},
         totalInput \in {implicitInputs(b3, be, sumUtxoValues(inputs))}})

\* Complete from the sort of the inputs on, builder b3 after coin selection
completeEstimate(b3, be, inputs, outputs, totalRequired, selected, usedBefore) ==
    The({IF exu.err # "" THEN Failed(b3, "ExUnit estimation failed")
         ELSE completeFee(exu.b, be, inputs, outputs, totalRequired, selected, usedBefore) :
         exu \in {IF b3.isEstimateRequired /\ b3.estimateExUnits
                  THEN estimateExecutionUnits(b3, be, inputs)
                  ELSE [err |-> "", b |-> b3]}})

\* Complete from coin selection on, given the outcome sel of selectCoins: the set of
\* [b, err, trace], one for each outcome of SortInputs
completeSelected(b2, be, outputs, totalRequired, sel) ==
    IF sel.err # "" THEN {Failed(b2, "coin selection failed")}
    ELSE {completeEstimate([b2 EXCEPT !.usedUtxos = sel.usedUtxos], be, inputs, outputs,
                           totalRequired, sel.selected, b2.usedUtxos) :
            inputs \in SortInputs(b2.preselectedUtxos \o sel.selected)}

\* Complete from the selection target on, builder b2 after the outputs are built:
\* the set of [b, err, trace], one for each outcome of the two sorts
completeSelect(b2, be, outputs, totalRequired) ==
    UNION {IF totalInput.err # "" THEN {Failed(b2, totalInput.err)}
           ELSE IF MaxTxFee(be).err
           THEN {Failed(b2, "failed to compute max tx fee for coin selection")}
           ELSE IF target.err # "" THEN {Failed(b2, "selection target overflow")}
           ELSE UNION {completeSelected(b2, be, outputs, totalRequired,
                                        selectCoins(b2, sorted, target.v, totalInput.v)) :
                         sorted \in SortUtxos(b2.utxos)} :
           totalInput \in {implicitInputs(b2, be, sumUtxoValues(b2.preselectedUtxos))},
           target \in {ValueAdd(totalRequired, NewSimpleValue(MaxTxFee(be).fee))}}

\* the guard of Complete without the check of a.tx
completeGuardWalletOnly(b) ==
    IF ~b.wallet.set THEN "wallet is required to complete transaction" ELSE ""

\* the error Complete returns before touching anything, "" when it goes on
completeGuard(b) ==
    IF b.tx.built THEN "transaction already built - call Complete() only once"
    ELSE IF ~b.wallet.set THEN "wallet is required to complete transaction"
    ELSE ""

\* Complete from the outputs on, builder b1 after setCollateral
completeOutputs(b1, be) ==
    UNION {IF built.err # "" THEN {Failed([b1 EXCEPT !.payments = built.payments], built.err)}
           ELSE UNION {
               IF total.err # ""
               THEN {Failed([b1 EXCEPT !.payments = built.payments], total.err)}
               ELSE completeSelect([b1 EXCEPT !.payments = built.payments], be, built.outputs,
                        adjustForCertificateDeposits(b1, total.v, stakeDeposit(be))) :
               total \in {totalOutputValue(built.outputs)}} :
           built \in {buildOutputs(b1, be)}}

\* Apollo.Complete against a backend behaving as be: the set of [b, err, trace]
Complete(b, be) ==
    IF completeGuard(b) # "" THEN {Failed(b, completeGuard(b))}
    ELSE UNION {IF loaded.err # "" THEN {Failed(b, loaded.err)}
                ELSE completeOutputs(setCollateral(loaded.b, be), be) :
                loaded \in {loadUtxos(b, be)}}

----------------------------------------------------------------------------
(* Backends                                                                *)

\* how far the fee constant rises from one call of ProtocolParams to the next while a
\* parameter update is rolling out
FeeStep == 1000

\* a backend that answers every call, with the same parameters throughout
Steady ==
    [ppErr |-> FALSE, maxFeeErr |-> FALSE, utxosErr |-> FALSE, eval |-> "all",
     pp |-> [phase \in 0..maxFeeIterations |-> DefaultParams]]

\* a backend whose fee constant rises between the phases of Complete
Rising == [Steady EXCEPT !.pp = [phase \in 0..maxFeeIterations |-> RaisedParams(phase * FeeStep)]]

\* the backends Complete is run against
Backends ==
    {Steady, Rising,
     [Steady EXCEPT !.ppErr = TRUE], [Steady EXCEPT !.maxFeeErr = TRUE],
     [Steady EXCEPT !.utxosErr = TRUE], [Steady EXCEPT !.eval = "err"],
     [Steady EXCEPT !.eval = "empty"]}

----------------------------------------------------------------------------
(* Bounds                                                                  *)

MaxPayments == 1

MaxPool == 2

MaxInputs == 2

MaxMints == 2

MaxWithdrawals == 2

----------------------------------------------------------------------------
(* The builder's operations                                                *)

Init == a = New /\ ret = Returned("New", "")

\* SetWallet
SetWallet ==
    /\ ~a.wallet.set
    /\ a' = [a EXCEPT !.wallet = [set |-> TRUE, addr |-> WalletAddr]]
    /\ ret' = Returned("SetWallet", "")

\* AddLoadedUTxOs with one UTxO
AddLoadedUTxOs ==
    \E utxo \in Range(WalletUtxos) :
        /\ Len(a.utxos) < MaxPool
        /\ a' = [a EXCEPT !.utxos = Append(@, utxo)]
        /\ ret' = Returned("AddLoadedUTxOs", "")

\* AddInput
AddInput ==
    \E utxo \in Range(WalletUtxos) :
        /\ Len(a.preselectedUtxos) < MaxInputs
        /\ a' = [a EXCEPT !.preselectedUtxos = Append(@, utxo)]
        /\ ret' = Returned("AddInput", "")

\* a Payment as PayToAddress makes it
Payment(addr, lovelace, units) ==
    [Receiver |-> addr, Lovelace |-> lovelace, Units |-> units, Datum |-> "none", Data |-> 0]

\* the amounts and units PayToAddress is called with
PayLovelace == {0, 1500000, 2000000, 9000000}

PayUnits == {<<>>, <<[PolicyId |-> PolicyAb, Name |-> Name01, Quantity |-> 2]>>}

\* PayToAddress
PayToAddress ==
    \E lovelace \in PayLovelace, units \in PayUnits :
        /\ Len(a.payments) < MaxPayments
        /\ a' = [a EXCEPT !.payments = Append(@, Payment(Receiver, lovelace, units))]
        /\ ret' = Returned("PayToAddress", "")

\* SetFee
SetFee ==
    \E fee \in {0, 200000} :
        /\ a.Fee # fee
        /\ a' = [a EXCEPT !.Fee = fee]
        /\ ret' = Returned("SetFee", "")

\* SetFeePadding
SetFeePadding ==
    \E padding \in {0, 50000} :
        /\ a.FeePadding # padding
        /\ a' = [a EXCEPT !.FeePadding = padding]
        /\ ret' = Returned("SetFeePadding", "")

\* the transaction a string of hex-encoded CBOR decodes to
LoadedTx == [NoTx EXCEPT !.built = TRUE, !.fee = 170000]

\* the strings LoadTxCbor is called with: "zz", "00" and "84", the head of a transaction
TxCborInputs == {<<122, 122>>, <<48, 48>>, <<56, 52>>}

\* cbor.Decode into a ConwayTransaction succeeds on an array of four
DecodesToTx(bytes) == bytes # <<>> /\ bytes[1] = 132

\* LoadTxCbor
LoadTxCbor ==
    \E txCbor \in TxCborInputs :
        IF ~HexValid(txCbor)
        THEN a' = a /\ ret' = Returned("LoadTxCbor", "invalid hex")
        ELSE IF ~DecodesToTx(HexDecodeString(txCbor))
        THEN a' = a /\ ret' = Returned("LoadTxCbor", "failed to decode transaction")
        ELSE a' = [a EXCEPT !.tx = LoadedTx] /\ ret' = Returned("LoadTxCbor", "")

\* Complete against any of the backends
CompleteOp ==
    \E be \in Backends :
        \E o \in Complete(a, be) :
            /\ a' = o.b
            /\ ret' = [op |-> "Complete", err |-> o.err, trace |-> o.trace]

\* the builder's life: set up, finalize or load, finalize again
Next == SetWallet \/ AddLoadedUTxOs \/ PayToAddress \/ LoadTxCbor \/ CompleteOp

Spec == Init /\ [][Next]_vars

----------------------------------------------------------------------------
(* The fee and the change                                                  *)

NextFee == SetWallet \/ PayToAddress \/ SetFee \/ SetFeePadding \/ CompleteOp

SpecFee == Init /\ [][NextFee]_vars

\* the last call was a Complete that built a transaction
Completed == ret.op = "Complete" /\ ret.err = "" /\ a.tx.built

\* the change output of the built transaction, which follows the payments' outputs
HasChangeOutput == Len(a.tx.outputs) > Len(a.payments)

ChangeOutput == a.tx.outputs[Len(a.payments) + 1]

\* C1: once the builder holds a finished transaction, whether Complete built it or
\* LoadTxCbor loaded it, a call of Complete returns an error and changes nothing of
\* the builder, the finished transaction included
C1_CompleteOnlyOnce ==
    [][(a.tx.built /\ ret'.op = "Complete") => (ret'.err # "" /\ a' = a)]_vars

\* Complete was called on a builder that held a finished transaction
C1_Witness ==
    /\ a.tx.built
    /\ ret.op = "Complete"
    /\ ret.err = "transaction already built - call Complete() only once"

\* C2: when the change is lovelace only and below the minimum of a change output, no
\* change output is appended and the fee of the finished transaction is what the inputs
\* leave over the outputs and deposits
C2_DustChangeBecomesFee ==
    (Completed /\ ret.trace.change = "dropped")
        => /\ ~HasChangeOutput
           /\ a.tx.fee = ret.trace.totalInput.coin - ret.trace.totalRequired.coin

\* C3: a change output of a transaction Complete built carries at least the minimum
\* lovelace of that output, coinsPerUtxoByte times its encoded size plus 160
C3_ChangeMeetsMinUtxo ==
    (Completed /\ HasChangeOutput)
        => ChangeOutput.coin >= MinLovelacePostAlonzo(ChangeOutput, DefaultParams.CoinsPerUtxoByte)

\* Complete appended a change output that carries native assets
C3_Witness == Completed /\ HasChangeOutput /\ HasAssets(ChangeOutput)

\* C4: when the re-estimate at the end of the third iteration is still above the
\* current fee, Complete returns an error and sets no transaction
C4_UnsettledFeeIsAnError ==
    (ret.op = "Complete" /\ ret.trace.unsettled) => (ret.err # "" /\ ~a.tx.built)

----------------------------------------------------------------------------
(* Coin selection on its own: the stages of Complete that mark UTxOs used, *)
(* and selectCoins called with any requirement and any committed value     *)

\* the UTxOs locked at a script: outputs 2 and 10 of one transaction, and an output of
\* a transaction whose id sorts after the wallet's
ScriptUtxos ==
    << Utxo(10, 2, 4000000, NilAssets), Utxo(10, 10, 4000000, NilAssets),
       Utxo(48, 0, 4000000, NilAssets) >>

\* the redeemer data a script UTxO is collected with: it names the UTxO
SpendData(utxo) == utxo.txid[1] + utxo.index

NoExUnits == [Memory |-> 0, Steps |-> 0]

\* CollectFrom
CollectFrom ==
    \E utxo \in Range(ScriptUtxos) :
        /\ Len(a.preselectedUtxos) < MaxInputs
        /\ a' = [a EXCEPT !.isEstimateRequired = TRUE,
                          !.preselectedUtxos = Append(@, utxo),
                          !.redeemers = MapSet(@, utxoRef(utxo),
                                               [Data |-> SpendData(utxo), ExUnits |-> NoExUnits])]
        /\ ret' = Returned("CollectFrom", "")

\* the setCollateral stage of Complete
setCollateralOp ==
    /\ a.wallet.set
    /\ a.collaterals = <<>> /\ hasScripts(a)
    /\ a' = setCollateral(a, Steady)
    /\ ret' = Returned("setCollateral", "")

\* the requirements and committed values selectCoins is called with
Requirements ==
    {NewSimpleValue(2000000), NewSimpleValue(12000000), NewSimpleValue(16000000),
     NewValue(1000000, TokenAb(3)), NewValue(1000000, TokenAb(7))}

\* the values already committed: nothing, lovelace and tokens, a burn
Committed == {NewSimpleValue(0), NewValue(3000000, TokenAb(2)), NewValue(0, TokenAb(0 - 2))}

\* the selectCoins stage of Complete
selectCoinsOp ==
    \E required \in Requirements, currentInput \in Committed, sorted \in SortUtxos(a.utxos) :
        LET sel == selectCoins(a, sorted, required, currentInput)
        IN  /\ a' = [a EXCEPT !.usedUtxos = sel.usedUtxos]
            /\ ret' = [op |-> "selectCoins", err |-> sel.err,
                       trace |-> [NoTrace EXCEPT !.totalRequired = required,
                                                 !.totalInput = currentInput,
                                                 !.selected = sel.selected,
                                                 !.usedBefore = a.usedUtxos]]

NextSel ==
    SetWallet \/ AddLoadedUTxOs \/ AddInput \/ CollectFrom \/ setCollateralOp \/ selectCoinsOp

SpecSel == Init /\ [][NextSel]_vars

\* the builder as the last call of selectCoins found it
BeforeSelect == [a EXCEPT !.usedUtxos = ret.trace.usedBefore]

\* the UTxOs of the pool that were unused when selectCoins was called
UnusedPool == SelectSeq(a.utxos, LAMBDA u : ~isUsed(BeforeSelect, utxoRef(u)))

\* v covers required: the lovelace and every positive asset quantity
Covers(v, required) ==
    /\ v.coin >= required.coin
    /\ \A k \in DOMAIN required.assets.q :
            required.assets.q[k] > 0 => (~v.assets.nil /\ Qty(v.assets, k) >= required.assets.q[k])

\* the sum of x and the committed value, where it does not overflow
WithCommitted(x) == ValueAdd(x, ret.trace.totalInput).v

\* C5: when the unused UTxOs of the pool together with the committed value cover the
\* requirement, selectCoins succeeds, what it returns together with the committed value
\* is GreaterOrEqual the requirement, and every UTxO it returns was unused before
C5_SelectionComplete ==
    (ret.op = "selectCoins" /\ Covers(WithCommitted(sumUtxoValues(UnusedPool)), ret.trace.totalRequired))
        => /\ ret.err = ""
           /\ GreaterOrEqual(WithCommitted(sumUtxoValues(ret.trace.selected)), ret.trace.totalRequired)
           /\ \A i \in 1..Len(ret.trace.selected) :
                  ~isUsed(BeforeSelect, utxoRef(ret.trace.selected[i]))

\* selectCoins had to take more than one UTxO to cover what the committed value left
C5_Witness ==
    /\ ret.op = "selectCoins" /\ ret.err = ""
    /\ Covers(WithCommitted(sumUtxoValues(UnusedPool)), ret.trace.totalRequired)
    /\ Len(ret.trace.selected) >= 2
    /\ ret.trace.totalInput.coin > 0

\* C6: a UTxO whose reference was marked used before the call, as a preselected input,
\* as collateral or by an earlier selection, is not among those selectCoins returns
C6_UsedNeverReselected ==
    ret.op = "selectCoins"
        => \A i \in 1..Len(ret.trace.selected) :
              /\ utxoRef(ret.trace.selected[i]) \notin Range(ret.trace.usedBefore)
              /\ \A j \in 1..Len(a.preselectedUtxos) :
                    utxoRef(a.preselectedUtxos[j]) # utxoRef(ret.trace.selected[i])

\* selectCoins returned a UTxO from a pool that held the collateral, a preselected input
\* and a UTxO of an earlier selection
C6_Witness ==
    /\ ret.op = "selectCoins" /\ ret.trace.selected # <<>>
    /\ a.collaterals # <<>>
    /\ \E u \in Range(a.utxos) : utxoRef(u) \in Range(ret.trace.usedBefore)
                                   /\ u \notin Range(a.collaterals)
    /\ \E u \in Range(a.utxos) : u \in Range(a.preselectedUtxos)

\* C7: when the unused UTxOs of the pool do not cover what remains of the requirement,
\* selectCoins returns the insufficient error and no UTxO, and marks none used
C7_InsufficientLeavesNoTrace ==
    (/\ ret.op = "selectCoins"
     /\ ~GreaterOrEqual(ret.trace.totalInput, ret.trace.totalRequired)
     /\ ~Covers(sumUtxoValues(UnusedPool),
                selectCoinsRemaining(ret.trace.totalRequired, ret.trace.totalInput)))
        => /\ ret.err = "insufficient UTxOs to cover required value"
           /\ ret.trace.selected = <<>>
           /\ a.usedUtxos = ret.trace.usedBefore

\* selectCoins failed after it had gone through unused UTxOs that cover a part
C7_Witness ==
    /\ ret.op = "selectCoins" /\ ret.err # ""
    /\ UnusedPool # <<>>
    /\ ret.trace.usedBefore # <<>>

----------------------------------------------------------------------------
(* Redeemers, each kind on its own                                         *)

\* the redeemer data a policy is minted with: it names the policy id string
MintData(policyId) == policyId[1] + policyId[2]

\* Mint of one token, with a redeemer or without
Mint ==
    \E policyId \in {PolicyAb, PolicyCd, PolicyAC}, scripted \in BOOLEAN :
        /\ Len(a.mint) < MaxMints
        /\ a' = [a EXCEPT !.mint = Append(@, [PolicyId |-> policyId, Name |-> Name01, Quantity |-> 1]),
                          !.mintRedeemers =
                              IF scripted
                              THEN MapSet(@, policyId,
                                          [Data |-> MintData(policyId), ExUnits |-> NoExUnits])
                              ELSE @,
                          !.isEstimateRequired = @ \/ scripted]
        /\ ret' = Returned("Mint", "")

\* the reward addresses rewards are withdrawn from: a key and two scripts, whose digests
\* differ and sort otherwise than the addresses do
RewardAddrs == {RewardKeyAddr(5), RewardScriptAddr(4), RewardScriptAddr(6)}

\* the redeemer data a withdrawal is made with: it names the address
WithdrawalData(addr) == addr.hdr + addr.stake[1]

\* AddWithdrawal, with a redeemer or without
AddWithdrawal ==
    \E address \in RewardAddrs, scripted \in BOOLEAN :
        /\ Cardinality(DOMAIN a.withdrawals \cup {address}) <= MaxWithdrawals
        /\ a' = [a EXCEPT !.withdrawals = MapSet(@, address, [Address |-> address, Amount |-> 1000000]),
                          !.stakeRedeemers =
                              IF scripted
                              THEN MapSet(@, HexEncodeToString(StakeKeyHash(address)),
                                          [Data |-> WithdrawalData(address), ExUnits |-> NoExUnits])
                              ELSE @,
                          !.isEstimateRequired = @ \/ scripted]
        /\ ret' = Returned("AddWithdrawal", "")

\* script inputs among the wallet's
NextSpend == SetWallet \/ AddInput \/ CollectFrom \/ CompleteOp

SpecSpend == Init /\ [][NextSpend]_vars

\* input x comes before input y by (transaction id, output index)
InputBefore(x, y) == SeqLess(x.txid, y.txid) \/ (x.txid = y.txid /\ x.index < y.index)

\* the place (from 0) of utxo among the inputs of the built transaction in that order
InputPlace(utxo) ==
    Cardinality({i \in 1..Len(a.tx.inputs) : InputBefore(a.tx.inputs[i], utxo)})

\* the built transaction has a redeemer of the tag at the index, with the data
HasRedeemer(tag, index, data) ==
    /\ <<tag, index>> \in DOMAIN a.tx.redeemers
    /\ a.tx.redeemers[<<tag, index>>].Data = data

\* C8: after Complete the spend redeemer of every script input collected has as index
\* the place of that input among the inputs of the transaction in ascending order of
\* (transaction id, output index), in whatever order the inputs were attached
C8_SpendIndexIsInputPlace ==
    Completed
        => \A i \in 1..Len(a.preselectedUtxos) :
              utxoRef(a.preselectedUtxos[i]) \in DOMAIN a.redeemers
                  => HasRedeemer("spend", InputPlace(a.preselectedUtxos[i]),
                                 SpendData(a.preselectedUtxos[i]))

\* Complete built a transaction from two script inputs collected in descending order
C8_Witness ==
    /\ Completed
    /\ Len(a.preselectedUtxos) = 2
    /\ \A i \in 1..2 : utxoRef(a.preselectedUtxos[i]) \in DOMAIN a.redeemers
    /\ InputBefore(a.preselectedUtxos[2], a.preselectedUtxos[1])

\* minting under several policies
NextMint == SetWallet \/ Mint \/ CompleteOp

SpecMint == Init /\ [][NextMint]_vars

\* the place (from 0) of the policy id among the policy ids of the mint field of the
\* built transaction, in ascending order of their bytes
PolicyPlace(policyId) ==
    Cardinality({q \in Range(a.tx.mintPolicies) : SeqLess(q, HexDecodeString(policyId))})

\* C9: after Complete the mint redeemer of a policy has as index the place of the
\* policy id among the distinct minted policy ids in ascending order of their bytes
C9_MintIndexIsPolicyPlace ==
    Completed
        => \A policyId \in DOMAIN a.mintRedeemers :
              HasRedeemer("mint", PolicyPlace(policyId), MintData(policyId))

\* withdrawing the rewards of several accounts
NextReward == SetWallet \/ AddWithdrawal \/ CompleteOp

SpecReward == Init /\ [][NextReward]_vars

\* the place (from 0) of the reward address among the withdrawals of the built
\* transaction, in ascending order of the address bytes
WithdrawalPlace(addr) ==
    Cardinality({w \in Range(a.tx.withdrawals) : SeqLess(AddressBytes(w), AddressBytes(addr))})

\* the withdrawal from addr was added with a redeemer
HasStakeRedeemer(addr) ==
    /\ HexEncodeToString(StakeKeyHash(addr)) \in DOMAIN a.stakeRedeemers
    /\ a.stakeRedeemers[HexEncodeToString(StakeKeyHash(addr))].Data = WithdrawalData(addr)

\* C10: after Complete the reward redeemer of a withdrawal has as index the place of
\* the withdrawal's address among the withdrawals in ascending order of the address bytes
C10_RewardIndexIsWithdrawalPlace ==
    Completed
        => \A addr \in DOMAIN a.withdrawals :
              HasStakeRedeemer(addr)
                  => HasRedeemer("reward", WithdrawalPlace(addr), WithdrawalData(addr))

\* Complete built a transaction with a redeemer for the second of two withdrawals
C10_Witness ==
    /\ Completed
    /\ \E addr \in DOMAIN a.withdrawals : HasStakeRedeemer(addr) /\ WithdrawalPlace(addr) = 1

----------------------------------------------------------------------------
(* The script data hash                                                    *)

\* a Plutus script: its language version (1, 2, 3) and its hash
Script(version, hash) == [version |-> version, hash |-> hash]

Scripts == {Script(1, 1), Script(2, 2), Script(3, 3), Script(2, 4)}

\* AttachScript
AttachScript ==
    \E script \in Scripts :
        /\ a' = IF script.hash \in Range(a.scriptHashes) THEN a
                ELSE [a EXCEPT !.scriptHashes = Append(@, script.hash),
                               !.v1scripts = IF script.version = 1 THEN Append(@, script) ELSE @,
                               !.v2scripts = IF script.version = 2 THEN Append(@, script) ELSE @,
                               !.v3scripts = IF script.version = 3 THEN Append(@, script) ELSE @]
        /\ ret' = Returned("AttachScript", "")

\* the language names ComputeScriptDataHash knows, and their versions
LanguageVersion(lang) ==
    IF lang = "PlutusV1" THEN 0 ELSE IF lang = "PlutusV2" THEN 1
    ELSE IF lang = "PlutusV3" THEN 2 ELSE 0 - 1

\* ComputeScriptDataHash: [nil, err, hash].  Blake2b256Hash is taken as collision free (the
\* hash stands for what was hashed) and EncodeLangViews as the canonical map of the views
ComputeScriptDataHash(redeemers, datums, costModels) ==
    IF DOMAIN redeemers = {} /\ datums = <<>>
    THEN [nil |-> TRUE, err |-> "", hash |-> [blake2b256 |-> <<>>]]
    ELSE IF \E lang \in DOMAIN costModels : LanguageVersion(lang) < 0
    THEN [nil |-> TRUE, err |-> "unsupported cost model language", hash |-> [blake2b256 |-> <<>>]]
    ELSE [nil |-> FALSE, err |-> "",
          hash |-> [blake2b256 |->
              << redeemers, datums,
                 [v \in {LanguageVersion(lang) : lang \in DOMAIN costModels} |->
                     costModels[CHOOSE lang \in DOMAIN costModels : LanguageVersion(lang) = v]] >>]]

\* the cost models of one language: the model keeps two parameters of each
CostModel(lang) == lang :> << LanguageVersion(lang) + 100, 7 >>

\* ProtocolParameters.CostModels as the backends report it: any set of the three languages
CostModelChoices ==
    {EmptyQ, CostModel("PlutusV1"), CostModel("PlutusV2"), CostModel("PlutusV3"),
     CostModel("PlutusV1") @@ CostModel("PlutusV2"),
     CostModel("PlutusV2") @@ CostModel("PlutusV3"),
     CostModel("PlutusV1") @@ CostModel("PlutusV2") @@ CostModel("PlutusV3")}

\* the script data hash of buildBody, for the builder b over the sorted inputs
bodyScriptDataHash(b, inputs, costModels) ==
    IF hasScriptData(b) THEN ComputeScriptDataHash(buildRedeemerMap(b, inputs), <<>>, costModels)
    ELSE [nil |-> TRUE, err |-> "", hash |-> [blake2b256 |-> <<>>]]

\* the script-data-hash stage of buildBody
scriptDataHashOp ==
    \E costModels \in CostModelChoices, inputs \in SortInputs(a.preselectedUtxos) :
        /\ hasScriptData(a)
        /\ a' = a
        /\ ret' = [op |-> "ComputeScriptDataHash",
                   err |-> bodyScriptDataHash(a, inputs, costModels).err,
                   trace |-> [hash |-> bodyScriptDataHash(a, inputs, costModels),
                              costModels |-> costModels, inputs |-> inputs]]

NextHash == AttachScript \/ CollectFrom \/ scriptDataHashOp

SpecHash == Init /\ [][NextHash]_vars

\* the language versions of the scripts the builder attached
ExercisedVersions ==
    {v \in {0, 1, 2} : \/ (v = 0 /\ a.v1scripts # <<>>)
                       \/ (v = 1 /\ a.v2scripts # <<>>)
                       \/ (v = 2 /\ a.v3scripts # <<>>)}

\* the cost models of the exercised versions among those of costModels
ExercisedModels(costModels) ==
    {<<lang, costModels[lang]>> : lang \in {l \in DOMAIN costModels : LanguageVersion(l) \in ExercisedVersions}}

\* C11: the script data hash depends only on the cost models of the language versions the
\* attached scripts exercise: parameters that differ only in the cost model of a version
\* no script of the transaction uses give the same hash (the scripts are the attached
\* ones: the builder has no reference input)
C11_HashCoversExercisedOnly ==
    (ret.op = "ComputeScriptDataHash" /\ a.scriptHashes # <<>>) =>
        \A other \in CostModelChoices :
            ExercisedModels(other) = ExercisedModels(ret.trace.costModels)
                => bodyScriptDataHash(a, ret.trace.inputs, other) = ret.trace.hash

----------------------------------------------------------------------------
(* Value arithmetic on its own: Add and Sub applied to any two Values      *)

AssetX == <<PolicyAb, Name01>>

AssetY == <<PolicyCd, Name01>>

\* the asset maps of the Values: nil, or any quantities (a burn, none, some) of two assets
ValueAssets ==
    {NilAssets} \cup
    {[nil |-> FALSE, q |-> q] :
        q \in UNION {[K -> {0 - 2, 0, 3}] : K \in SUBSET {AssetX, AssetY}}}

Values == {NewValue(coin, assets) : coin \in {0, 100, MaxUint64}, assets \in ValueAssets}

\* two Values are chosen; result is the Value the next operation applies to
InitValue ==
    /\ a = New
    /\ ret \in {[op |-> "Values", err |-> "",
                 trace |-> [v |-> v, other |-> other, minuend |-> v, result |-> v,
                            after |-> "Values"]] : v \in Values, other \in Values}

\* v.Add(other)
ValueAddOp ==
    /\ ret.op = "Values"
    /\ a' = a
    /\ ret' = [op |-> "Add", err |-> ValueAdd(ret.trace.v, ret.trace.other).err,
               trace |-> [ret.trace EXCEPT !.result = ValueAdd(ret.trace.v, ret.trace.other).v,
                                           !.after = "Values"]]

\* result.Sub(other), on v itself or on the sum Add returned
ValueSubOp ==
    /\ ret.op = "Values" \/ (ret.op = "Add" /\ ret.err = "")
    /\ a' = a
    /\ ret' = [op |-> "Sub", err |-> ValueSub(ret.trace.result, ret.trace.other).err,
               trace |-> [ret.trace EXCEPT !.minuend = ret.trace.result,
                                           !.result = ValueSub(ret.trace.result, ret.trace.other).v,
                                           !.after = ret.op]]

NextValue == ValueAddOp \/ ValueSubOp

SpecValue == InitValue /\ [][NextValue]_vars

\* the assets either Value names
AssetsOf(x, y) == (DOMAIN x.assets.q) \cup (DOMAIN y.assets.q)

\* the mathematical difference x - y is negative on the coin or on an asset of K
DifferenceNegative(x, y, K) ==
    \/ x.coin - y.coin < 0
    \/ \E k \in K : Qty(x.assets, k) - Qty(y.assets, k) < 0

\* C12 as stated: Sub fails exactly when the true difference is negative on the coin or on
\* some asset quantity, the assets only the minuend holds included
C12_SubFailsIffNegative ==
    ret.op = "Sub" =>
        (ret.err # "" <=>
            DifferenceNegative(ret.trace.minuend, ret.trace.other,
                               AssetsOf(ret.trace.minuend, ret.trace.other)))

\* C12 amended: Sub fails exactly when the true difference is negative on the coin or on
\* some asset the subtrahend names
C12_SubFailsIffRequiredNegative ==
    ret.op = "Sub" =>
        (ret.err # "" <=>
            DifferenceNegative(ret.trace.minuend, ret.trace.other,
                               DOMAIN ret.trace.other.assets.q))

\* Sub failed on an asset alone, between two Values that both hold assets
C12_Witness ==
    /\ ret.op = "Sub" /\ ret.err # ""
    /\ ret.trace.other.coin <= ret.trace.minuend.coin
    /\ ~ret.trace.minuend.assets.nil /\ ~ret.trace.other.assets.nil

\* x and y agree on the coin and on every asset quantity
SameQuantities(x, y) ==
    /\ x.coin = y.coin
    /\ \A k \in AssetsOf(x, y) : Qty(x.assets, k) = Qty(y.assets, k)

\* v.Add(other) was computed, then its result minus other
SubAfterAdd == ret.op = "Sub" /\ ret.trace.after = "Add"

\* C13 as stated: whenever the coin sum does not overflow, Add succeeds, Sub of the sum
\* succeeds and gives back v in coin and in every asset quantity
C13_AddThenSubRestores ==
    /\ (ret.op = "Add" /\ ret.trace.v.coin <= MaxUint64 - ret.trace.other.coin) => ret.err = ""
    /\ SubAfterAdd => (ret.err = "" /\ SameQuantities(ret.trace.result, ret.trace.v))

\* C13 amended: the same for every v that holds no negative quantity of an asset that
\* other names
C13_AddThenSubRestoresHeld ==
    /\ (ret.op = "Add" /\ ret.trace.v.coin <= MaxUint64 - ret.trace.other.coin) => ret.err = ""
    /\ (SubAfterAdd /\ \A k \in DOMAIN ret.trace.other.assets.q : Qty(ret.trace.v.assets, k) >= 0)
          => (ret.err = "" /\ SameQuantities(ret.trace.result, ret.trace.v))

\* the round trip was made from a Value without assets, over a burn and a positive quantity
C13_Witness ==
    /\ SubAfterAdd /\ ret.err = ""
    /\ ret.trace.v.assets.nil
    /\ \E k \in DOMAIN ret.trace.other.assets.q : ret.trace.other.assets.q[k] < 0
    /\ \E k \in DOMAIN ret.trace.other.assets.q : ret.trace.other.assets.q[k] > 0

----------------------------------------------------------------------------
(* Coin totals at the edge of the integer width                            *)

\* UTxOs whose coins cannot be summed within the integer width
LargeUtxos ==
    {Utxo(64, 0, MaxUint64 - 1000000, NilAssets), Utxo(64, 1, 5000000, NilAssets),
     Utxo(64, 2, MaxUint64, NilAssets)}

\* AddInput with a UTxO of a large amount
AddLargeInput ==
    \E utxo \in LargeUtxos :
        /\ Len(a.preselectedUtxos) < MaxInputs
        /\ a' = [a EXCEPT !.preselectedUtxos = Append(@, utxo)]
        /\ ret' = Returned("AddInput", "")

NextSum == SetWallet \/ AddLargeInput \/ PayToAddress \/ CompleteOp

SpecSum == Init /\ [][NextSum]_vars

RECURSIVE ExactCoinSum(_)
\* the sum of the coins when it is within the integer width, -1 when it exceeds it
ExactCoinSum(coins) ==
    IF coins = <<>> THEN 0
    ELSE IF ExactCoinSum(Tail(coins)) < 0 \/ Head(coins) > MaxUint64 - ExactCoinSum(Tail(coins))
    THEN 0 - 1
    ELSE Head(coins) + ExactCoinSum(Tail(coins))

\* C14: when the coins of the inputs given to Complete, or the withdrawal amounts, sum to
\* more than the integer width holds, Complete returns an error and builds no transaction
C14_OverflowIsAnError ==
    (/\ ret.op = "Complete"
     /\ \/ ExactCoinSum([i \in 1..Len(a.preselectedUtxos) |-> a.preselectedUtxos[i].coin]) < 0
        \/ ExactCoinSum([i \in 1..Len(sortedWithdrawalKeys(a)) |->
                            a.withdrawals[sortedWithdrawalKeys(a)[i]].Amount]) < 0)
        => (ret.err # "" /\ ~a.tx.built)

----------------------------------------------------------------------------
(* EnsureMinUTXO on its own: any payment against any coinsPerUtxoByte      *)

\* the payments EnsureMinUTXO is called on: ADA-only, with assets, with a datum hash or an
\* inline datum, at, below and above the MinLovelace constant
MinUtxoPayments ==
    {[Payment(Receiver, lovelace, units) EXCEPT !.Datum = datum, !.Data = 5] :
        lovelace \in {0 - 1, 0, MinLovelace, 1500000},
        units \in PayUnits \cup {<<[PolicyId |-> PolicyCd, Name |-> Name01, Quantity |-> 70000]>>},
        datum \in {"none", "hash", "inline"}}

\* the values of coinsPerUtxoByte the protocol parameters report
CoinsPerUtxoByteValues == {0, DefaultParams.CoinsPerUtxoByte, 5000, 34482}

InitMinUtxo ==
    /\ a = New
    /\ ret \in {[op |-> "Payment", err |-> "",
                 trace |-> [p |-> p, coinsPerUtxoByte |-> c, before |-> p]] :
                    p \in MinUtxoPayments, c \in CoinsPerUtxoByteValues}

\* p.EnsureMinUTXO(cc), the backend answering or failing ProtocolParams
EnsureMinUTXOOp ==
    \E ppErr \in BOOLEAN :
        /\ ret.op = "Payment"
        /\ a' = a
        /\ ret' = The({[op |-> "EnsureMinUTXO", err |-> r.err,
                        trace |-> [ret.trace EXCEPT !.p = r.p]] :
                       r \in {EnsureMinUTXO(ret.trace.p,
                                            [DefaultParams EXCEPT
                                                !.err = ppErr,
                                                !.CoinsPerUtxoByte = ret.trace.coinsPerUtxoByte])}})

NextMinUtxo == EnsureMinUTXOOp

SpecMinUtxo == InitMinUtxo /\ [][NextMinUtxo]_vars

\* C15: when EnsureMinUTXO returns no error, the payment's lovelace is at least
\* coinsPerUtxoByte * (encoded size of its output + 160), whatever the payment and
\* whatever coinsPerUtxoByte
C15_MinUtxoEnsured ==
    (ret.op = "EnsureMinUTXO" /\ ret.err = "")
        => /\ PaymentToTxOut(ret.trace.p).err = ""
           /\ ret.trace.p.Lovelace >=
                  MinLovelacePostAlonzo(PaymentToTxOut(ret.trace.p).out, ret.trace.coinsPerUtxoByte)

----------------------------------------------------------------------------
(* Collateral                                                              *)

\* C16: Complete never returns a script transaction without collateral: when the builder
\* carries script execution and setCollateral finds no UTxO to take, Complete fails
C16_ScriptTxHasCollateral ==
    (ret.op = "Complete" /\ hasScripts(a) /\ a.collaterals = <<>>)
        => (ret.err # "" /\ ~a.tx.built)

\* x / y rounded up
CeilDiv(x, y) == (x + y - 1) \div y

\* C17: the total collateral of a transaction whose collateral Complete selected is the
\* override when one was set, otherwise maxFee * collateralPercent / 100 rounded up (the
\* backends that let Complete succeed all answer ProtocolParams and MaxTxFee)
C17_CollateralTargetRoundedUp ==
    (Completed /\ a.tx.collateral # <<>>)
        => a.tx.totalCollateral =
              IF a.collateralAmount > 0 THEN a.collateralAmount
              ELSE CeilDiv(ComputeMaxTxFee(DefaultParams) * DefaultParams.CollateralPercent, 100)

----------------------------------------------------------------------------
(* The builder around a failed Complete                                    *)

\* C18: a Complete that returns an error sets no transaction and leaves the payments, the
\* UTxO pool, the used marks, the collateral selection and the redeemers as they were
C18_FailedCompleteChangesNothing ==
    [][(ret'.op = "Complete" /\ ret'.err # "")
          => /\ a'.tx = a.tx
             /\ a'.payments = a.payments
             /\ a'.utxos = a.utxos
             /\ a'.usedUtxos = a.usedUtxos
             /\ a'.collaterals = a.collaterals /\ a'.totalCollateral = a.totalCollateral
             /\ a'.collateralReturn = a.collateralReturn
             /\ a'.redeemers = a.redeemers /\ a'.mintRedeemers = a.mintRedeemers
             /\ a'.stakeRedeemers = a.stakeRedeemers]_vars

----------------------------------------------------------------------------
(* Complete against a backend that fails one of its calls                  *)

\* the backends that fail ProtocolParams, MaxTxFee, Utxos or EvaluateTx
FailingBackends ==
    {[Steady EXCEPT !.ppErr = TRUE], [Steady EXCEPT !.maxFeeErr = TRUE],
     [Steady EXCEPT !.utxosErr = TRUE], [Steady EXCEPT !.eval = "err"]}

\* Complete against a failing backend; the backend is kept with what Complete returned
CompleteFailingOp ==
    \E be \in FailingBackends :
        \E o \in Complete(a, be) :
            /\ a' = o.b
            /\ ret' = [op |-> "Complete", err |-> o.err, trace |-> o.trace, be |-> be]

NextBackend == SetWallet \/ PayToAddress \/ CollectFrom \/ CompleteFailingOp

SpecBackend == Init /\ [][NextBackend]_vars

\* Complete on the builder b makes the call that the backend be fails, unless an earlier
\* step has already failed
FailedCallIsMade(b, be) ==
    \/ be.ppErr
    \/ be.maxFeeErr
    \/ be.eval = "err" /\ b.isEstimateRequired /\ b.estimateExUnits
    \/ /\ be.utxosErr
       /\ \/ b.inputAddresses # <<>>
          \/ b.utxos = <<>> /\ b.preselectedUtxos = <<>>
          \/ b.utxos = <<>> /\ b.collaterals = <<>> /\ hasScripts(b)

\* C20: a Complete during which a backend call fails returns an error and builds no
\* transaction
C20_BackendErrorFailsComplete ==
    [][(/\ ret'.op = "Complete"
        /\ a.wallet.set /\ ~a.tx.built
        /\ FailedCallIsMade(a, ret'.be))
          => (ret'.err # "" /\ ~a'.tx.built)]_vars

----------------------------------------------------------------------------
(* Clone.  Here the builder is kept as Go keeps it: its slices are headers *)
(* [ptr, len] over backing arrays, its maps and payments are pointers, and *)
(* the heap (a sequence of objects, an address is a place in it) holds the *)
(* arrays, the maps and the Payment structs.  `a` is the heap with the     *)
(* original builder and, once Clone has run, its clone.                    *)

\* a nil slice
NilSlice == [ptr |-> 0, len |-> 0]

\* the elements of the slice s
sliceView(h, s) == IF s.ptr = 0 THEN <<>> ELSE SubSeq(h[s.ptr], 1, s.len)

\* append(s, x): in place when the backing array has room, else into a new array.  How
\* much room a new array has beyond what is needed is the runtime's choice, a.spare slots;
\* an unused slot of an array holds 0.  [h, s]
sliceAppend(h, s, x) ==
    IF s.ptr # 0 /\ s.len < Len(h[s.ptr])
    THEN [h |-> [h EXCEPT ![s.ptr][s.len + 1] = x], s |-> [s EXCEPT !.len = @ + 1]]
    ELSE [h |-> Append(h, sliceView(h, s) \o <<x>> \o [i \in 1..a.spare |-> 0]),
          s |-> [ptr |-> Len(h) + 1, len |-> s.len + 1]]

RECURSIVE sliceAppendAll(_, _, _)
\* append(s, xs...) one element at a time
sliceAppendAll(h, s, xs) ==
    IF xs = <<>> THEN [h |-> h, s |-> s]
    ELSE The({sliceAppendAll(r.h, r.s, Tail(xs)) : r \in {sliceAppend(h, s, Head(xs))}})

\* the slice fields of the builder that the operations below append to
SliceFields == {"utxos", "preselectedUtxos", "usedUtxos", "collaterals"}

\* the builder r (slice headers, pointers) read out of the heap h as the record of values
\* the operations of the other sections work on
Deref(h, r) ==
    [f \in DOMAIN r |->
        IF f \in SliceFields THEN sliceView(h, r[f])
        ELSE IF f = "payments" THEN [i \in 1..r[f].len |-> h[sliceView(h, r[f])[i]]]
        ELSE IF f = "redeemers" THEN h[r[f]]
        ELSE r[f]]

\* New(cc) in the heap: nil slices, an empty redeemers map made at address 1
NewRef ==
    [f \in DOMAIN New |->
        IF f \in SliceFields \cup {"payments"} THEN NilSlice
        ELSE IF f = "redeemers" THEN 1
        ELSE New[f]]

\* Clone that copies the struct alone: every slice header and pointer shared
CloneShallow(h, r) == [h |-> h, r |-> r]

RECURSIVE clonePayments(_, _, _, _)
\* the loop of Clone over the payments from the i-th on: each *Payment is copied into a new
\* struct and its pointer appended to the clone's payments c.  [h, s]
clonePayments(h, src, c, i) ==
    IF i > Len(src) THEN [h |-> h, s |-> c]
    ELSE The({clonePayments(r.h, src, r.s, i + 1) :
              r \in {sliceAppend(Append(h, h[src[i]]), c, Len(h) + 1)}})

RECURSIVE cloneSlices(_, _, _, _)
\* clone.f = append(clone.f, a.f...) for each of the slice fields.  [h, r]: c is the clone
cloneSlices(h, r, c, fields) ==
    IF fields = <<>> THEN [h |-> h, r |-> c]
    ELSE The({cloneSlices(s.h, r, [c EXCEPT ![Head(fields)] = s.s], Tail(fields)) :
              s \in {sliceAppendAll(h, NilSlice, sliceView(h, r[Head(fields)]))}})

\* Apollo.Clone of the builder r: [h, r], the heap after it and the clone
Clone(h, r) ==
    The({cloneSlices(Append(p.h, p.h[r.redeemers]), r,
                     [r EXCEPT !.payments = p.s, !.redeemers = Len(p.h) + 1,
                               !.forceFee = FALSE],
                     <<"utxos", "preselectedUtxos", "usedUtxos", "collaterals">>) :
         p \in {clonePayments(h, sliceView(h, r.payments), NilSlice, 1)}})

\* SetWallet on r
refSetWallet(h, r) ==
    [h |-> h, r |-> [r EXCEPT !.wallet = [set |-> TRUE, addr |-> WalletAddr]]]

\* PayToAddress on r: a new Payment, its pointer appended
refPayToAddress(h, r, lovelace) ==
    The({[h |-> s.h, r |-> [r EXCEPT !.payments = s.s]] :
         s \in {sliceAppend(Append(h, Payment(Receiver, lovelace, <<>>)), r.payments, Len(h) + 1)}})

\* AddLoadedUTxOs on r
refAddLoadedUTxOs(h, r, utxo) ==
    The({[h |-> s.h, r |-> [r EXCEPT !.utxos = s.s]] : s \in {sliceAppend(h, r.utxos, utxo)}})

\* CollectFrom on r: the input appended, the redeemer written into the map
refCollectFrom(h, r, utxo) ==
    The({[h |-> [s.h EXCEPT ![r.redeemers] =
                    MapSet(@, utxoRef(utxo), [Data |-> SpendData(utxo), ExUnits |-> NoExUnits])],
          r |-> [r EXCEPT !.isEstimateRequired = TRUE, !.preselectedUtxos = s.s]] :
         s \in {sliceAppend(h, r.preselectedUtxos, utxo)}})

\* the slice s after the builder's field went from old to new: appended to when old is a
\* prefix of new, assigned a fresh slice otherwise.  [h, s]
sliceStore(h, s, old, new) ==
    IF new = old THEN [h |-> h, s |-> s]
    ELSE IF Len(old) < Len(new) /\ SubSeq(new, 1, Len(old)) = old
    THEN sliceAppendAll(h, s, SubSeq(new, Len(old) + 1, Len(new)))
    ELSE sliceAppendAll(h, NilSlice, new)

RECURSIVE storeSlices(_, _, _, _, _)
\* the slice fields of r after Complete took the builder from the values old to new
storeSlices(h, r, old, new, fields) ==
    IF fields = <<>> THEN [h |-> h, r |-> r]
    ELSE The({storeSlices(s.h, [r EXCEPT ![Head(fields)] = s.s], old, new, Tail(fields)) :
              s \in {sliceStore(h, r[Head(fields)], old[Head(fields)], new[Head(fields)])}})

\* what Complete wrote, put into the heap: the payments raised through their pointers, the
\* redeemers written into the map, the slices appended to or assigned, the rest by value
refStore(h, r, old, new) ==
    storeSlices(
        [i \in 1..Len(h) |->
            IF i = r.redeemers THEN new.redeemers
            ELSE IF \E j \in 1..r.payments.len : sliceView(h, r.payments)[j] = i
            THEN new.payments[CHOOSE j \in 1..r.payments.len : sliceView(h, r.payments)[j] = i]
            ELSE h[i]],
        [f \in DOMAIN r |->
            IF f \in SliceFields \cup {"payments", "redeemers"} THEN r[f] ELSE new[f]],
        old, new, <<"utxos", "preselectedUtxos", "usedUtxos", "collaterals">>)

\* the pointers the builder r holds, in the order of its fields
pointersOf(h, r) ==
    <<r.redeemers, r.payments.ptr>>
    \o (IF r.payments.ptr = 0 THEN <<>> ELSE h[r.payments.ptr])
    \o <<r.utxos.ptr, r.preselectedUtxos.ptr, r.usedUtxos.ptr, r.collaterals.ptr>>

\* the addresses of roots in the order they are first met
firstMet(roots) ==
    [k \in 1..Cardinality({x \in Range(roots) : x # 0}) |->
        roots[CHOOSE i \in 1..Len(roots) :
                /\ roots[i] # 0
                /\ \A j \in 1..(i - 1) : roots[j] # roots[i]
                /\ Cardinality({x \in {roots[j] : j \in 1..(i - 1)} : x # 0}) = k - 1]]

\* the place of the address x in addrs, nil staying nil
movedTo(addrs, x) == IF x = 0 THEN 0 ELSE CHOOSE k \in 1..Len(addrs) : addrs[k] = x

\* the builder r with its pointers moved
moved(addrs, r) ==
    [f \in DOMAIN r |->
        IF f \in SliceFields \cup {"payments"} THEN [r[f] EXCEPT !.ptr = movedTo(addrs, @)]
        ELSE IF f = "redeemers" THEN movedTo(addrs, r[f])
        ELSE r[f]]

\* the heap s.h with the objects no builder reaches dropped and the others put in the order
\* the builders meet them: addresses carry no meaning beyond which pointers are equal
compacted(s, addrs) ==
    [h      |-> [k \in 1..Len(addrs) |->
                    IF addrs[k] \in {s.orig.payments.ptr, s.clone.payments.ptr}
                    THEN [i \in 1..Len(s.h[addrs[k]]) |-> movedTo(addrs, s.h[addrs[k]][i])]
                    ELSE s.h[addrs[k]]],
     orig   |-> moved(addrs, s.orig),
     clone  |-> IF s.cloned THEN moved(addrs, s.clone) ELSE s.clone,
     cloned |-> s.cloned,
     spare  |-> s.spare]

\* the garbage collector
Collected(s) ==
    compacted(s, firstMet(pointersOf(s.h, s.orig)
                          \o (IF s.cloned THEN pointersOf(s.h, s.clone) ELSE <<>>)))

\* the script inputs a builder collects at most
MaxCollected == 1

\* the two builders
Builders == {"orig", "clone"}

InitClone ==
    /\ a \in {[h |-> <<EmptyQ>>, orig |-> NewRef, clone |-> NewRef, cloned |-> FALSE,
              spare |-> spare] : spare \in {0, 1}}
    /\ ret = [op |-> "New", err |-> "", on |-> "orig"]

\* the builder who exists and is not finalized
Pending(who) == (who = "orig" \/ a.cloned) /\ ~a[who].tx.built

\* the operation op on the builder who left the heap and the builder as res
Applied(who, res, op, err) ==
    /\ \E s \in {[a EXCEPT !.h = res.h, ![who] = res.r]} : a' = Collected(s)
    /\ ret' = [op |-> op, err |-> err, on |-> who]

\* clone := orig.Clone()
CloneOp ==
    /\ ~a.cloned
    /\ \E c \in {Clone(a.h, a.orig)} :
            a' = Collected([a EXCEPT !.h = c.h, !.clone = c.r, !.cloned = TRUE])
    /\ ret' = [op |-> "Clone", err |-> "", on |-> "orig"]

BuilderSetWallet ==
    \E who \in Builders :
        /\ Pending(who) /\ ~a[who].wallet.set
        /\ Applied(who, refSetWallet(a.h, a[who]), "SetWallet", "")

BuilderPayToAddress ==
    \E who \in Builders, lovelace \in {0} :
        /\ Pending(who) /\ a[who].payments.len < MaxPayments
        /\ Applied(who, refPayToAddress(a.h, a[who], lovelace), "PayToAddress", "")

BuilderAddLoadedUTxOs ==
    \E who \in Builders, utxo \in {WalletUtxos[1], WalletUtxos[2]} :
        /\ Pending(who) /\ a[who].utxos.len < MaxPool
        /\ Applied(who, refAddLoadedUTxOs(a.h, a[who], utxo), "AddLoadedUTxOs", "")

BuilderCollectFrom ==
    \E who \in Builders, utxo \in {ScriptUtxos[1]} :
        /\ Pending(who) /\ a[who].preselectedUtxos.len < MaxCollected
        /\ Applied(who, refCollectFrom(a.h, a[who], utxo), "CollectFrom", "")

BuilderComplete ==
    \E who \in Builders :
        /\ Pending(who)
        /\ \E b \in {Deref(a.h, a[who])} :
              \E o \in Complete(b, Steady) :
                  \E res \in {refStore(a.h, a[who], b, o.b)} :
                      Applied(who, res, "Complete", o.err)

NextClone ==
    \/ CloneOp \/ BuilderSetWallet \/ BuilderPayToAddress \/ BuilderAddLoadedUTxOs
    \/ BuilderCollectFrom \/ BuilderComplete

SpecClone == InitClone /\ [][NextClone]_vars

\* C19: once the builder is cloned, an operation on the clone, Complete included, leaves
\* every field of the original as it was, and an operation on the original leaves every
\* field of the clone as it was
C19_CloneIsIndependent ==
    [][(a.cloned /\ a'.cloned)
          => /\ ret'.on = "clone" => Deref(a'.h, a'.orig) = Deref(a.h, a.orig)
             /\ ret'.on = "orig" => Deref(a'.h, a'.clone) = Deref(a.h, a.clone)]_vars

\* Complete built the clone's transaction and raised the clone's payment to the minimum,
\* over a payment, a pool and a script input that the original still holds unbuilt
C19_Witness ==
    /\ a.cloned /\ ret.op = "Complete" /\ ret.on = "clone" /\ ret.err = ""
    /\ a.clone.tx.built /\ ~a.orig.tx.built
    /\ a.orig.payments.len = 1 /\ a.clone.payments.len = 1
    /\ a.orig.utxos.len > 0 /\ a.orig.preselectedUtxos.len > 0
    /\ Deref(a.h, a.orig).payments[1].Lovelace = 0
    /\ Deref(a.h, a.clone).payments[1].Lovelace > 0

----------------------------------------------------------------------------
(* Operations that reject their input                                      *)

\* math.MaxUint32, with output indices kept at 16 bits
MaxUint32 == 65535

\* the transaction ids AddReferenceInput is called with: "zz", "", "abcd" (two bytes where
\* the hash has one) and "10", a transaction id
TxHashInputs == {<<122, 122>>, <<>>, <<97, 98, 99, 100>>, <<49, 48>>}

\* AddReferenceInput that records the input before it checks the index
AddReferenceInputUnchecked(b, txHash, index) ==
    IF ~HexValid(txHash) THEN [err |-> "invalid tx hash hex", b |-> b]
    ELSE IF Len(HexDecodeString(txHash)) + HashPad(Blake2b256Size) # Blake2b256Size
    THEN [err |-> "invalid tx hash length", b |-> b]
    ELSE [err |-> IF index < 0 \/ index > MaxUint32 THEN "index out of range" ELSE "",
          b |-> [b EXCEPT !.referenceInputs =
                    Append(@, [txid |-> HexDecodeString(txHash), index |-> index])]]

\* Apollo.AddReferenceInput: [err, b]
AddReferenceInput(b, txHash, index) ==
    IF ~HexValid(txHash) THEN [err |-> "invalid tx hash hex", b |-> b]
    ELSE IF Len(HexDecodeString(txHash)) + HashPad(Blake2b256Size) # Blake2b256Size
    THEN [err |-> "invalid tx hash length", b |-> b]
    ELSE IF index < 0 \/ index > MaxUint32 THEN [err |-> "index out of range", b |-> b]
    ELSE [err |-> "",
          b |-> [b EXCEPT !.referenceInputs =
                    Append(@, [txid |-> HexDecodeString(txHash), index |-> index])]]

\* Apollo.utxoValue
utxoValue(utxo) == NewValue(utxo.coin, utxo.assets)

\* the key of an asset as the policies and the names of a multi-asset are walked
AssetKey(k) == k[1] \o k[2]

\* NewPaymentFromValue: a unit for every entry of the assets
NewPaymentFromValue(receiver, value) ==
    Payment(receiver, value.coin,
            IF value.assets.nil THEN <<>>
            ELSE [i \in 1..Cardinality(DOMAIN value.assets.q) |->
                    The({[PolicyId |-> HexEncodeToString(k[1]), Name |-> HexEncodeToString(k[2]),
                          Quantity |-> value.assets.q[k]] :
                         k \in {SortedBy(DOMAIN value.assets.q, AssetKey)[i]}})])

RECURSIVE consumedTotal(_, _)
\* the loop of ConsumeUTxO over the payments, from the sum total: [err, v]
consumedTotal(payments, total) ==
    IF payments = <<>> THEN [err |-> "", v |-> total]
    ELSE The({IF pv.err # "" THEN [err |-> "failed to compute payment value", v |-> total]
              ELSE The({IF sum.err # "" THEN [err |-> "payment value overflow", v |-> total]
                        ELSE consumedTotal(Tail(payments), sum.v) :
                        sum \in {ValueAdd(total, pv.v)}}) :
              pv \in {PaymentToValue(Head(payments))}})

\* Apollo.ConsumeUTxO: [err, b]
ConsumeUTxO(b, utxo, payments) ==
    The({IF total.err # "" THEN [err |-> total.err, b |-> b]
         ELSE The({
            IF remainder.err # "" THEN [err |-> "UTxO value insufficient for payments", b |-> b]
            ELSE IF (remainder.v.coin > 0 \/ HasAssets(remainder.v)) /\ ~b.wallet.set
            THEN [err |-> "wallet required to receive UTxO remainder", b |-> b]
            ELSE [err |-> "",
                  b |-> [b EXCEPT
                     !.preselectedUtxos = Append(@, utxo),
                     !.payments =
                        IF remainder.v.coin > 0 \/ HasAssets(remainder.v)
                        THEN Append(@ \o payments,
                                    NewPaymentFromValue(b.wallet.addr, remainder.v))
                        ELSE @ \o payments]] :
            remainder \in {ValueSub(utxoValue(utxo), total.v)}}) :
         total \in {consumedTotal(payments, [coin |-> 0, assets |-> NilAssets])}})

\* the bech32 strings the convenience methods are called with: the wallet's address, the
\* receiver's, the receiver's with a wrong checksum, and the empty string
Bech32Inputs == {"addr1wallet", "addr1receiver", "addr1receivex", ""}

\* common.NewAddress of a bech32 string: [err, addr]
NewAddress(bech32) ==
    IF bech32 = "addr1wallet" THEN [err |-> "", addr |-> WalletAddr]
    ELSE IF bech32 = "addr1receiver" THEN [err |-> "", addr |-> Receiver]
    ELSE [err |-> "invalid bech32 address", addr |-> NoWallet.addr]

\* GetStakeCredentialFromAddress: [err, cred]
GetStakeCredentialFromAddress(addr) ==
    IF addr.stake = <<>> THEN [err |-> "address has no staking component", cred |-> <<>>]
    ELSE [err |-> "", cred |-> addr.stake]

\* resolveCredential of a bech32 string: [err, cred]
resolveCredential(bech32) ==
    IF NewAddress(bech32).err # "" THEN [err |-> "invalid bech32 address", cred |-> <<>>]
    ELSE GetStakeCredentialFromAddress(NewAddress(bech32).addr)

\* what a call that takes an input returns: the input is kept with the outcome
Called(op, err, input) == [op |-> op, err |-> err, trace |-> NoTrace, input |-> input]

\* how many entries the operations of this section add to each list of the builder
MaxAdded == 1

\* AddReferenceInput
AddReferenceInputOp ==
    \E txHash \in TxHashInputs, index \in {-1, 0, MaxUint32, MaxUint32 + 1} :
        \E r \in {AddReferenceInput(a, txHash, index)} :
            /\ Len(a.referenceInputs) < MaxAdded
            /\ a' = r.b
            /\ ret' = Called("AddReferenceInput", r.err, [txHash |-> txHash, index |-> index])

\* the payments ConsumeUTxO is called with
ConsumedPayments ==
    {<<>>,
     <<Payment(Receiver, 3000000, <<>>)>>,
     <<Payment(Receiver, 1500000, <<>>)>>,
     <<Payment(Receiver, 2000000, <<[PolicyId |-> PolicyAb, Name |-> Name01, Quantity |-> 5]>>)>>,
     <<Payment(Receiver, 1000000, <<[PolicyId |-> PolicyAb, Name |-> Name01, Quantity |-> 6]>>)>>,
     <<Payment(Receiver, -1, <<>>)>>,
     <<Payment(Receiver, 1000000, <<[PolicyId |-> PolicyAb, Name |-> Name01, Quantity |-> -1]>>)>>,
     <<Payment(Receiver, 1000000, <<[PolicyId |-> <<122, 122>>, Name |-> Name01, Quantity |-> 1]>>)>>,
     <<Payment(Receiver, 2000000, <<>>), Payment(Receiver, 2000000, <<>>)>>,
     <<Payment(Receiver, MaxUint64, <<>>), Payment(Receiver, 1, <<>>)>>}

\* ConsumeUTxO
ConsumeUTxOOp ==
    \E utxo \in {WalletUtxos[1], WalletUtxos[3]}, payments \in ConsumedPayments :
        \E r \in {ConsumeUTxO(a, utxo, payments)} :
            /\ Len(a.preselectedUtxos) < MaxAdded
            /\ a' = r.b
            /\ ret' = Called("ConsumeUTxO", r.err, [utxo |-> utxo, payments |-> payments])

\* AddInputAddressFromBech32
AddInputAddressFromBech32 ==
    \E bech32 \in Bech32Inputs :
        /\ Len(a.inputAddresses) < MaxAdded
        /\ a' = IF NewAddress(bech32).err # "" THEN a
                ELSE [a EXCEPT !.inputAddresses = Append(@, NewAddress(bech32).addr)]
        /\ ret' = Called("AddInputAddressFromBech32", NewAddress(bech32).err, bech32)

\* PayToAddressBech32
PayToAddressBech32 ==
    \E bech32 \in Bech32Inputs, lovelace \in {2000000} :
        /\ Len(a.payments) < MaxAdded
        /\ a' = IF NewAddress(bech32).err # "" THEN a
                ELSE [a EXCEPT !.payments =
                         Append(@, Payment(NewAddress(bech32).addr, lovelace, <<>>))]
        /\ ret' = Called("PayToAddressBech32", NewAddress(bech32).err, bech32)

\* SetChangeAddressBech32
SetChangeAddressBech32 ==
    \E bech32 \in Bech32Inputs :
        /\ a' = IF NewAddress(bech32).err # "" THEN a
                ELSE [a EXCEPT !.changeAddress = [set |-> TRUE, addr |-> NewAddress(bech32).addr]]
        /\ ret' = Called("SetChangeAddressBech32", NewAddress(bech32).err, bech32)

\* RegisterStakeFromBech32 and DeregisterStakeFromBech32
StakeFromBech32 ==
    \E bech32 \in Bech32Inputs, cert \in {"reg", "dereg"} :
        /\ Len(a.certificates) < MaxAdded
        /\ a' = IF resolveCredential(bech32).err # "" THEN a
                ELSE [a EXCEPT !.certificates = Append(@, cert)]
        /\ ret' = Called(IF cert = "reg" THEN "RegisterStakeFromBech32"
                         ELSE "DeregisterStakeFromBech32",
                         resolveCredential(bech32).err, bech32)

NextReject ==
    \/ SetWallet \/ AddReferenceInputOp \/ ConsumeUTxOOp \/ AddInputAddressFromBech32
    \/ PayToAddressBech32 \/ SetChangeAddressBech32 \/ StakeFromBech32

SpecReject == Init /\ [][NextReject]_vars

\* the operations of this section
Rejecting ==
    {"AddReferenceInput", "ConsumeUTxO", "AddInputAddressFromBech32", "PayToAddressBech32",
     "SetChangeAddressBech32", "RegisterStakeFromBech32", "DeregisterStakeFromBech32"}

\* the transaction id is no hex string of a hash, or the index is out of range
BadReferenceInput(input) ==
    \/ \E i \in 1..Len(input.txHash) : FromHexChar(input.txHash[i]) < 0
    \/ Len(input.txHash) # 2
    \/ input.index < 0
    \/ input.index > MaxUint32

RECURSIVE ExceedsCoin(_, _)
\* the lovelace of the payments, none negative, comes to more than left
ExceedsCoin(payments, left) ==
    IF payments = <<>> THEN FALSE
    ELSE \/ Head(payments).Lovelace > left
         \/ ExceedsCoin(Tail(payments), left - Head(payments).Lovelace)

RECURSIVE ExceedsTokens(_, _)
\* the units of the payments, none negative and all of one asset, come to more than left
ExceedsTokens(units, left) ==
    IF units = <<>> THEN FALSE
    ELSE \/ Head(units).Quantity > left
         \/ ExceedsTokens(Tail(units), left - Head(units).Quantity)

\* a payment is invalid, or the payments together exceed what the UTxO holds
BadConsumption(input) ==
    \/ \E i \in 1..Len(input.payments) :
          \/ input.payments[i].Lovelace < 0
          \/ \E j \in 1..Len(input.payments[i].Units) :
                \/ input.payments[i].Units[j].Quantity < 0
                \/ ~HexValid(input.payments[i].Units[j].PolicyId)
    \/ ExceedsCoin(input.payments, input.utxo.coin)
    \/ ExceedsTokens(Concat([i \in 1..Len(input.payments) |-> input.payments[i].Units]),
                     Qty(input.utxo.assets, <<HexDecodeString(PolicyAb), HexDecodeString(Name01)>>))

\* the input of the last call is one the operation rejects
BadInput(r) ==
    IF r.op = "AddReferenceInput" THEN BadReferenceInput(r.input)
    ELSE IF r.op = "ConsumeUTxO" THEN BadConsumption(r.input)
    ELSE r.input \notin {"addr1wallet", "addr1receiver"}

\* C21: AddReferenceInput, ConsumeUTxO and the bech32 methods return an error on an input
\* they reject, and a call of theirs that returns an error leaves the builder as it was
C21_RejectedInputChangesNothing ==
    [][(ret'.op \in Rejecting)
          => /\ BadInput(ret') => ret'.err # ""
             /\ ret'.err # "" => a' = a]_vars

\* ConsumeUTxO rejected payments that exceed the UTxO, on a builder that holds a payment,
\* a reference input and an input address already
C21_Witness ==
    /\ ret.op = "ConsumeUTxO" /\ ret.err = "UTxO value insufficient for payments"
    /\ a.payments # <<>> /\ a.referenceInputs # <<>> /\ a.inputAddresses # <<>>

----------------------------------------------------------------------------
(* Payments with negative amounts                                          *)

\* the amounts and units PayToAddress is called with here, negative ones among them
SignedLovelace == {-1, 2000000}

SignedUnits ==
    {<<>>,
     <<[PolicyId |-> PolicyAb, Name |-> Name01, Quantity |-> 2]>>,
     <<[PolicyId |-> PolicyAb, Name |-> Name01, Quantity |-> -1]>>}

\* PayToAddress with any amounts: the payment is appended as it is given
PayToAddressSigned ==
    \E lovelace \in SignedLovelace, units \in SignedUnits :
        /\ Len(a.payments) < MaxPayments
        /\ a' = [a EXCEPT !.payments = Append(@, Payment(Receiver, lovelace, units))]
        /\ ret' = Returned("PayToAddress", "")

NextPay == SetWallet \/ AddLoadedUTxOs \/ PayToAddressSigned \/ CompleteOp

SpecPay == Init /\ [][NextPay]_vars

\* C22: the builder records no payment with negative lovelace or a negative asset
\* quantity: the call that would add one fails and leaves the payments as they were
C22_NegativePaymentNotRecorded ==
    \A i \in 1..Len(a.payments) :
        /\ a.payments[i].Lovelace >= 0
        /\ \A j \in 1..Len(a.payments[i].Units) : a.payments[i].Units[j].Quantity >= 0

----------------------------------------------------------------------------
(* The order of coin selection                                             *)

RECURSIVE RemainingAfter(_, _)
\* what remains of the requirement `remaining` once the UTxOs taken are counted
RemainingAfter(remaining, taken) ==
    IF taken = <<>> THEN remaining
    ELSE RemainingAfter(selectCoinsTake(remaining, Head(taken)), Tail(taken))

\* what remained of the requirement of the last selectCoins before it took its i-th UTxO
RemainingBefore(i) ==
    RemainingAfter(selectCoinsRemaining(ret.trace.totalRequired, ret.trace.totalInput),
                   SubSeq(ret.trace.selected, 1, i - 1))

\* C23: selectCoins takes an ADA-only UTxO only once every asset shortfall is resolved
\* and while the lovelace remainder is above zero
C23_AssetsBeforeAdaOnly ==
    (ret.op = "selectCoins" /\ ret.err = "")
        => \A i \in 1..Len(ret.trace.selected) :
              ret.trace.selected[i].assets.nil
                  => /\ ~HasAssets(RemainingBefore(i))
                     /\ RemainingBefore(i).coin > 0

----------------------------------------------------------------------------
(* Certificate deposits                                                    *)

MaxCertificates == 2

\* RegisterStake, DeregisterStake and DelegateStake with the wallet's credential
AddCertificate ==
    \E cert \in {"reg", "dereg", "deleg"} :
        /\ Len(a.certificates) < MaxCertificates
        /\ a' = [a EXCEPT !.certificates = Append(@, cert)]
        /\ ret' = Returned(IF cert = "reg" THEN "RegisterStake"
                           ELSE IF cert = "dereg" THEN "DeregisterStake" ELSE "DelegateStake", "")

\* backends that report the key deposit as "2000000", "500000", "0" and ""
DepositBackends ==
    {[Steady EXCEPT !.pp = [phase \in 0..maxFeeIterations |->
                               [DefaultParams EXCEPT !.KeyDeposits = deposit]]] :
        deposit \in {Itoa(2000000), Itoa(500000), Itoa(0), <<>>}}

\* Complete against a backend with one of the key deposits
CompleteDepositOp ==
    \E be \in DepositBackends :
        \E o \in Complete(a, be) :
            /\ a' = o.b
            /\ ret' = [op |-> "Complete", err |-> o.err, trace |-> o.trace, be |-> be]

NextCert == SetWallet \/ PayToAddress \/ AddCertificate \/ CompleteDepositOp

SpecCert == Init /\ [][NextCert]_vars

\* the key deposit of the protocol parameters times the registrations less the
\* deregistrations among the builder's certificates
NetDeposit ==
    ParseInt(ret.be.pp[0].KeyDeposits).n
        * (Cardinality({i \in 1..Len(a.certificates) : a.certificates[i] = "reg"})
           - Cardinality({i \in 1..Len(a.certificates) : a.certificates[i] = "dereg"}))

\* the lovelace of the first n of the outputs, and of the inputs, of the built transaction
PaidCoin == SumOver(1..Len(a.payments), [i \in 1..Len(a.payments) |-> a.tx.outputs[i].coin])

SpentCoin == SumOver(1..Len(a.tx.inputs), [i \in 1..Len(a.tx.inputs) |-> a.tx.inputs[i].coin])

\* C24: the required value of a finished transaction is its payments plus the net deposit
\* when that is positive, its input total the inputs plus the refund when it is negative,
\* the net deposit being the key deposit of the protocol parameters times the
\* registrations less the deregistrations
C24_DepositFromProtocolParams ==
    (Completed /\ "be" \in DOMAIN ret /\ ~ParseInt(ret.be.pp[0].KeyDeposits).err)
        => /\ ret.trace.totalRequired.coin = PaidCoin + (IF NetDeposit > 0 THEN NetDeposit ELSE 0)
           /\ ret.trace.totalInput.coin = SpentCoin + (IF NetDeposit < 0 THEN 0 - NetDeposit ELSE 0)

----------------------------------------------------------------------------
(* A forced fee                                                            *)

\* ForceFee
ForceFee ==
    \E fee \in {0, 200000} :
        /\ ~a.forceFee \/ a.Fee # fee
        /\ a' = [a EXCEPT !.Fee = fee, !.forceFee = TRUE]
        /\ ret' = Returned("ForceFee", "")

NextForce == SetWallet \/ PayToAddress \/ ForceFee \/ SetFeePadding \/ CompleteOp

SpecForce == Init /\ [][NextForce]_vars

\* C25: the transaction Complete builds after ForceFee(f) declares the fee f plus the
\* fee padding, for f = 0 as for any other f
C25_ForcedFeeIsDeclared ==
    (Completed /\ a.forceFee) => a.tx.fee = a.Fee + a.FeePadding

----------------------------------------------------------------------------
(* The change and the declared fee                                         *)

\* C26: the change output of a finished transaction holds the input total less the
\* required value (outputs and deposits) and less the fee the transaction declares,
\* in lovelace and in every asset
C26_ChangeBalancesDeclaredFee ==
    (Completed /\ HasChangeOutput)
        => /\ ChangeOutput.coin
                = ret.trace.totalInput.coin - ret.trace.totalRequired.coin - a.tx.fee
           /\ \A k \in DOMAIN ret.trace.totalInput.assets.q \cup DOMAIN ChangeOutput.assets.q :
                 Qty(ChangeOutput.assets, k)
                    = Qty(ret.trace.totalInput.assets, k) - Qty(ret.trace.totalRequired.assets, k)

----------------------------------------------------------------------------
(* Burning                                                                 *)

\* Mint of tokens of policy "ab" with no redeemer: two minted, three or five burnt
MintSigned ==
    \E quantity \in {2, -3, -5} :
        /\ Len(a.mint) < MaxMints
        /\ a' = [a EXCEPT !.mint = Append(@, [PolicyId |-> PolicyAb, Name |-> Name01,
                                               Quantity |-> quantity])]
        /\ ret' = Returned("Mint", "")

NextBurn == SetWallet \/ AddInput \/ MintSigned \/ CompleteOp

SpecBurn == Init /\ [][NextBurn]_vars

\* C27: no output of a finished transaction holds a negative quantity of an asset
C27_NoNegativeOutput ==
    Completed
        => \A i \in 1..Len(a.tx.outputs) :
              \A k \in DOMAIN a.tx.outputs[i].assets.q : a.tx.outputs[i].assets.q[k] >= 0

----------------------------------------------------------------------------
(* A UTxO added more than once                                             *)

\* the UTxOs among the inputs of the built transaction, each once
DistinctInputs == Range(a.tx.inputs)

\* C28: each UTxO reference is at most once among the inputs of a finished transaction,
\* and its lovelace is counted once in the input total
C28_InputCountedOnce ==
    Completed
        => /\ \A i, j \in 1..Len(a.tx.inputs) :
                 i # j => utxoRef(a.tx.inputs[i]) # utxoRef(a.tx.inputs[j])
           /\ ret.trace.totalInput.coin
                 = SumOver(DistinctInputs, [u \in DistinctInputs |-> u.coin])

----------------------------------------------------------------------------
(* The declared fee against the size of the finished transaction           *)

\* the minimum fee of the finished transaction: its own encoded size, with the fee it
\* declares, its final outputs and the witnesses assumed by estimateFee, times the
\* coefficient, plus the constant and the cost of the execution units
MinFeeOfBuiltTx ==
    feeOf(ProtocolParams(ret.be, 0), BodyLen(a, a.tx.inputs, a.tx.outputs, a.tx.fee),
          a.tx.redeemers, 1 + a.requiredSigners)

\* C29: when the builder estimates the fee itself, the fee the finished transaction
\* declares is at least the minimum fee of that transaction
C29_FeeCoversBuiltTx ==
    (Completed /\ "be" \in DOMAIN ret /\ a.Fee = 0 /\ ~a.forceFee)
        => a.tx.fee >= MinFeeOfBuiltTx

----------------------------------------------------------------------------
(* CachedChainContext under concurrent callers.  Here `a` is the cache and  *)
(* its callers: the clock, the two cached entries, and for every caller the *)
(* place it has reached in ProtocolParams or GenesisParams; a section held  *)
(* under c.mu is one step.                                                  *)

\* the ttl the cache is made with, in ticks of the clock
CacheTtl == 2

\* how far the clock runs
MaxTime == 3

\* the goroutines that call the cache
Callers == {1, 2}

\* the two cached calls
CachedCalls == {"ProtocolParams", "GenesisParams"}

\* NewCachedChainContext(inner, ttl): nothing cached, no caller inside
InitCache ==
    /\ a = [now      |-> 0,
            cached   |-> [k \in CachedCalls |-> FALSE],
            cachedAt |-> [k \in CachedCalls |-> 0],
            value    |-> [k \in CachedCalls |-> 0],
            pc       |-> [c \in Callers |-> "idle"],
            call     |-> [c \in Callers |-> "ProtocolParams"],
            got      |-> [c \in Callers |-> 0],
            queries  |-> [k \in CachedCalls |-> <<>>]]
    /\ ret = [op |-> "NewCachedChainContext", err |-> "", by |-> 0, cached |-> FALSE, value |-> 0]

\* the first section under the lock: a fresh cached value is returned, else the caller
\* leaves the lock to query the wrapped backend
CacheLookup ==
    \E c \in Callers, k \in CachedCalls :
        /\ a.pc[c] = "idle"
        /\ IF a.cached[k] /\ a.now - a.cachedAt[k] < CacheTtl
           THEN /\ a' = a
                /\ ret' = [op |-> k, err |-> "", by |-> c, cached |-> TRUE, value |-> a.value[k]]
           ELSE /\ a' = [a EXCEPT !.pc[c] = "query", !.call[c] = k]
                /\ ret' = [op |-> "lookup", err |-> "", by |-> c, cached |-> FALSE, value |-> 0]

\* c.inner.ProtocolParams() or c.inner.GenesisParams(), outside the lock: it fails, or
\* answers the value of the moment
InnerQuery ==
    \E c \in Callers, fails \in BOOLEAN :
        /\ a.pc[c] = "query"
        /\ IF fails
           THEN /\ a' = [a EXCEPT !.pc[c] = "idle"]
                /\ ret' = [op |-> a.call[c], err |-> "backend error", by |-> c,
                           cached |-> FALSE, value |-> 0]
           ELSE /\ a' = [a EXCEPT !.pc[c] = "store", !.got[c] = a.now,
                                  !.queries[a.call[c]] = Append(@, a.now)]
                /\ ret' = [op |-> "query", err |-> "", by |-> c, cached |-> FALSE, value |-> a.now]

\* the second section under the lock: the answer is stored with the time, and returned
CacheStore ==
    \E c \in Callers :
        /\ a.pc[c] = "store"
        /\ a' = [a EXCEPT !.pc[c] = "idle", !.got[c] = 0,
                          !.cached[a.call[c]] = TRUE,
                          !.cachedAt[a.call[c]] = a.now,
                          !.value[a.call[c]] = a.got[c]]
        /\ ret' = [op |-> a.call[c], err |-> "", by |-> c, cached |-> FALSE, value |-> a.got[c]]

\* the clock
Tick ==
    /\ a.now < MaxTime
    /\ a' = [a EXCEPT !.now = @ + 1]
    /\ ret' = [op |-> "tick", err |-> "", by |-> 0, cached |-> FALSE, value |-> 0]

NextCache == CacheLookup \/ InnerQuery \/ CacheStore \/ Tick

SpecCache == InitCache /\ [][NextCache]_vars

\* C30: the wrapped backend answers each of the two calls at most once per TTL window:
\* two queries of the same call that it answered are at least the ttl apart
C30_OneQueryPerWindow ==
    \A k \in CachedCalls :
        \A i, j \in 1..Len(a.queries[k]) : i < j => a.queries[k][j] - a.queries[k][i] >= CacheTtl

============================================================================
